---- MODULE Spec2Model ----
\* A model of the audit engine of jsm.go (package audit): the check registry
\* (MustRegisterCheck and its two indexes) and the analysis runner (RunCheck,
\* RunChecks), translated from src/audit/checks.go.
\*
\* Strings that the code inspects character by character (check codes, skip
\* entries, configuration keys) are sequences of one-character strings; strings
\* of which only equality and emptiness matter (names, descriptions, error
\* texts) are TLA+ strings.
EXTENDS Integers, Sequences, FiniteSets, TLC

VARIABLES
    pc,                  \* position of the caller: "idle", "ranCheck", "ranChecks"
    archive,             \* the archive the Reader wraps (read-only)
    clock,               \* the wall clock time.Now() reads
    args,                \* the arguments of the call that was made
    analysis,            \* the *Analysis RunChecks returned
    handlerCalls,        \* the handler invocations the call made, in order
    rcResult,            \* what RunCheck returned (outcome, examples)
    registeredChecks,    \* var registeredChecks: map name -> Check
    checksConfiguration, \* var checksConfiguration: map key -> *CheckConfiguration
    regResult,           \* how the last MustRegisterCheck call ended
    defaultSnaps,        \* what the GetDefaultChecks calls since the last registration returned
    configSnap,          \* what the last GetConfigurationItems call since the last registration returned
    item,                \* a CheckConfiguration that Set is called on
    setResult,           \* the error the last Set call returned
    rerun,               \* the *Analysis a second RunChecks call with the same arguments returned
    file,                \* the content of the file an analysis is saved to and loaded from
    loadResult,          \* what LoadAnalysis returned: (*Analysis, error)
    mutex,               \* registeredChecksMu: the goroutine that holds it, or none
    procs,               \* the goroutines calling the registry: position, arguments, results
    policy,              \* a value of one of the enumerated policy types of package api
    codecResult          \* what the last MarshalJSON / UnmarshalJSON call returned

vars == <<pc, archive, clock, args, analysis, handlerCalls, rcResult,
          registeredChecks, checksConfiguration, regResult,
          defaultSnaps, configSnap, item, setResult,
          rerun, file, loadResult, mutex, procs, policy, codecResult>>

runVars == <<pc, archive, clock, args, analysis, handlerCalls, rcResult>>
regVars == <<registeredChecks, checksConfiguration, regResult>>
readVars == <<defaultSnaps, configSnap>>
cfgVars == <<item, setResult>>
fileVars == <<file, loadResult>>
concVars == <<mutex, procs>>
enumVars == <<policy, codecResult>>

-----------------------------------------------------------------------------
\* Bounds of the model.

\* longest check list handed to RunChecks
MaxChecks == 2
\* longest skip list handed to RunChecks
MaxSkip == 2
\* largest example limit
MaxLimit == 1
\* most examples a handler offers in a standalone RunCheck call
MaxAdds == 2
\* most checks handed to one MustRegisterCheck call
MaxBatch == 2
\* most servers an archive holds artifacts of
MaxServers == 3

-----------------------------------------------------------------------------
\* Outcome (checks.go:168-204)

Pass == 0
PassWithIssues == 1
Fail == 2
Skipped == 3

\* var Outcomes = [...]Outcome{Pass, PassWithIssues, Fail, Skipped}
Outcomes == <<Pass, PassWithIssues, Fail, Skipped>>

\* the value that stands for a panic of Outcome.String
PanicLabel == "panic: Uknown outcome code"

\* a String that labels Fail as it labels PassWithIssues
OutcomeStringFailAsWarn(o) ==
    CASE o = Fail -> "WARN"
      [] o = Pass -> "PASS"
      [] o = PassWithIssues -> "WARN"
      [] o = Skipped -> "SKIP"
      [] OTHER -> PanicLabel

\* func (o Outcome) String() string
OutcomeString(o) ==
    CASE o = Fail -> "FAIL"
      [] o = Pass -> "PASS"
      [] o = PassWithIssues -> "WARN"
      [] o = Skipped -> "SKIP"
      [] OTHER -> PanicLabel

-----------------------------------------------------------------------------
\* Strings as sequences of characters.

\* unicode.ToLower on the characters the model uses
LowerChar(ch) ==
    CASE ch = "A" -> "a"
      [] ch = "B" -> "b"
      [] OTHER -> ch

\* strings.ToLower
ToLower(s) == [i \in 1..Len(s) |-> LowerChar(s[i])]

\* a comparison that tells upper case from lower case
EqualExact(s, t) == s = t

\* strings.EqualFold: equality under simple case folding
EqualFold(s, t) ==
    /\ Len(s) = Len(t)
    /\ \A i \in 1..Len(s) : LowerChar(s[i]) = LowerChar(t[i])

-----------------------------------------------------------------------------
\* ExamplesCollection: a bounded evidence buffer with a running total and an
\* optional error text.

\* the zero value ExamplesCollection{}
ZeroExamples == [Examples |-> <<>>, Limit |-> 0, Total |-> 0, Error |-> ""]

\* newExamplesCollection(limit)
newExamplesCollection(limit) ==
    [Examples |-> <<>>, Limit |-> limit, Total |-> 0, Error |-> ""]

\* (*ExamplesCollection).Add: stores while below the limit, always counts
ExamplesAdd(c, text) ==
    [c EXCEPT !.Total = @ + 1,
              !.Examples = IF Len(@) < c.Limit THEN Append(@, text) ELSE @]

-----------------------------------------------------------------------------
\* Check handlers. A handler is a function value; the model describes one by
\* what it does when called: it offers `adds` examples to the collection it is
\* given and returns (outcome, err).

\* a nil error
NilErr == "<nil>"

\* a nil CheckFunc
NilHandler == [kind |-> "nil"]

\* the values of the variables a specification does not use
NoFile == [kind |-> "none"]
NoLoad == [kind |-> "none"]
NoHolder == "none"
NoProcs == <<>>
NoPolicy == [type |-> "none", value |-> 0]
NoCodec == [kind |-> "none"]

\* the value of `item` while no CheckConfiguration is in hand
NoItem == [Key |-> <<>>, Check |-> <<>>, Description |-> "", Unit |-> "none"]

RECURSIVE AddExamples(_, _, _, _)
\* the handler's calls of examples.Add, k-th to n-th
AddExamples(c, code, k, n) ==
    IF k > n THEN c
    ELSE AddExamples(ExamplesAdd(c, <<code, k>>), code, k + 1, n)

-----------------------------------------------------------------------------
\* The archive Reader, as far as the runner uses it: one reserved metadata
\* artifact that is present or absent.

\* archive.ErrNoMatches
ErrNoMatches == "no matches"

\* the zero value archive.AuditMetadata{}
ZeroMetadata == [UserName |-> "", ConnectedServerName |-> ""]

\* the metadata a gathered archive holds
StoredMetadata == [UserName |-> "gatherer", ConnectedServerName |-> "srv1"]

\* (*archive.Reader).Load(target, tags...) for the metadata tag: the error it
\* returns and the target afterwards
Load(ar, target) ==
    IF ar.meta = "absent"
    THEN [err |-> ErrNoMatches, target |-> target]
    ELSE [err |-> NilErr, target |-> StoredMetadata]

-----------------------------------------------------------------------------
\* The meta-cluster checks (checkMetaClusterLeader,
\* checkMetaClusterOfflineReplicas).
\*
\* The archive holds, per cluster, its servers in the order the Reader names
\* them, and per server its JSZ artifact: missing, present but not
\* deserializable, or a server.ServerAPIJszResponse whose Data has Disabled,
\* Meta (nil or not), Meta.Leader and Meta.Replicas.

\* the error of an artifact that does not deserialize
ErrMalformed == "unexpected end of JSON input"

\* (*archive.Reader).ClusterNames()
ClusterNames(ar) == [i \in 1..Len(ar.clusters) |-> ar.clusters[i].name]

\* (*archive.Reader).ClusterServerNames(clusterName)
ClusterServerNames(ar, clusterName) ==
    LET c == CHOOSE c \in {ar.clusters[i] : i \in 1..Len(ar.clusters)} :
                c.name = clusterName
    IN  [i \in 1..Len(c.servers) |-> c.servers[i].name]

\* the artifact the archive holds under (cluster, server, JetStream)
Artifact(ar, clusterName, serverName) ==
    LET c == CHOOSE c \in {ar.clusters[i] : i \in 1..Len(ar.clusters)} :
                c.name = clusterName
        srv == CHOOSE srv \in {c.servers[i] : i \in 1..Len(c.servers)} :
                srv.name = serverName
    IN  srv.jsz

\* r.Load(&resp, clusterTag, serverTag, jsTag): the error and resp.Data
LoadJsz(ar, clusterName, serverName) ==
    LET a == Artifact(ar, clusterName, serverName)
    IN  CASE a.kind = "missing"   -> [err |-> ErrNoMatches, data |-> a]
          [] a.kind = "malformed" -> [err |-> ErrMalformed, data |-> a]
          [] OTHER                -> [err |-> NilErr, data |-> a]

\* (*ExamplesCollection).Count(): the examples offered so far
Count(examples) == examples.Total

\* leaderFollowers[leader] = append(leaderFollowers[leader], serverName)
AddFollower(lf, leader, serverName) ==
    [l \in DOMAIN lf \cup {leader} |->
        IF l \in DOMAIN lf
        THEN (IF l = leader THEN Append(lf[l], serverName) ELSE lf[l])
        ELSE <<serverName>>]

\* the place of a leader value in the byte order of strings
LeaderRank(leader) ==
    CASE leader = "NO_LEADER" -> 1
      [] leader = "s1" -> 2
      [] leader = "s2" -> 3
      [] OTHER -> 4

RECURSIVE FormatLeaderFollowers(_)
\* fmt's %v of leaderFollowers: the entries in ascending order of key
FormatLeaderFollowers(lf) ==
    IF DOMAIN lf = {} THEN <<>>
    ELSE LET first == CHOOSE l \in DOMAIN lf :
                        \A m \in DOMAIN lf : LeaderRank(l) <= LeaderRank(m)
         IN  <<[leader |-> first, followers |-> lf[first]]>>
                \o FormatLeaderFollowers([l \in DOMAIN lf \ {first} |-> lf[l]])

\* a test that takes a single leader for a disagreement
DisagreeOnAny(lf) == Cardinality(DOMAIN lf) >= 1

\* len(leaderFollowers) > 1
Disagree(lf) == Cardinality(DOMAIN lf) > 1

RECURSIVE LeaderServers(_, _, _, _, _)
\* the loop over the servers of one cluster, from the i-th on: the error it
\* returns with, or the leaderFollowers it ends with
LeaderServers(ar, clusterName, names, i, lf) ==
    IF i > Len(names) THEN [err |-> NilErr, lf |-> lf]
    ELSE LET r == LoadJsz(ar, clusterName, names[i])
             leader == IF r.data.Leader = "" THEN "NO_LEADER" ELSE r.data.Leader
         IN  CASE r.err = ErrNoMatches ->
                    LeaderServers(ar, clusterName, names, i + 1, lf)
               [] r.err # NilErr ->
                    [err |-> "failed to load JSZ for server " \o names[i] \o ": " \o r.err,
                     lf  |-> lf]
               [] r.data.Disabled ->
                    LeaderServers(ar, clusterName, names, i + 1, lf)
               [] ~r.data.hasMeta ->
                    LeaderServers(ar, clusterName, names, i + 1, lf)
               [] OTHER ->
                    LeaderServers(ar, clusterName, names, i + 1,
                                  AddFollower(lf, leader, names[i]))

RECURSIVE LeaderClusters(_, _, _, _)
\* the loop over the clusters, from the k-th on, and the return after it
LeaderClusters(ar, clusters, k, examples) ==
    IF k > Len(clusters)
    THEN [outcome  |-> IF Count(examples) > 0 THEN Fail ELSE Pass,
          err      |-> NilErr,
          examples |-> examples]
    ELSE LET r == LeaderServers(ar, clusters[k], ClusterServerNames(ar, clusters[k]),
                                1, [l \in {} |-> <<>>])
         IN  IF r.err # NilErr
             THEN [outcome |-> Skipped, err |-> r.err, examples |-> examples]
             ELSE LeaderClusters(ar, clusters, k + 1,
                    IF Disagree(r.lf)
                    THEN ExamplesAdd(examples,
                            <<"disagree", clusters[k], FormatLeaderFollowers(r.lf)>>)
                    ELSE examples)

\* func checkMetaClusterLeader(_, r, examples, log) (Outcome, error)
checkMetaClusterLeader(ar, examples) ==
    LeaderClusters(ar, ClusterNames(ar), 1, examples)

RECURSIVE OfflinePeersAll(_, _, _, _, _)
\* a loop over the replicas that takes every peer for offline
OfflinePeersAll(clusterName, serverName, replicas, i, examples) ==
    IF i > Len(replicas) THEN examples
    ELSE OfflinePeersAll(clusterName, serverName, replicas, i + 1,
            ExamplesAdd(examples, <<"offline", clusterName, serverName, replicas[i].Name>>))

RECURSIVE OfflinePeers(_, _, _, _, _)
\* for _, peerInfo := range jsz.Data.Meta.Replicas, from the i-th on
OfflinePeers(clusterName, serverName, replicas, i, examples) ==
    IF i > Len(replicas) THEN examples
    ELSE OfflinePeers(clusterName, serverName, replicas, i + 1,
            IF replicas[i].Offline
            THEN ExamplesAdd(examples, <<"offline", clusterName, serverName, replicas[i].Name>>)
            ELSE examples)

\* a callback that takes every load error for a missing artifact
OfflineCallbackLenient(clusterName, serverName, err, data, examples) ==
    CASE err # NilErr -> [err |-> NilErr, examples |-> examples]
      [] data.Disabled -> [err |-> NilErr, examples |-> examples]
      [] ~data.hasMeta -> [err |-> NilErr, examples |-> examples]
      [] OTHER ->
            [err |-> NilErr,
             examples |-> OfflinePeers(clusterName, serverName, data.Replicas, 1, examples)]

\* the callback checkMetaClusterOfflineReplicas hands to EachClusterServerJsz:
\* the error it returns and the collection afterwards
OfflineCallback(clusterName, serverName, err, data, examples) ==
    CASE err = ErrNoMatches -> [err |-> NilErr, examples |-> examples]
      [] err # NilErr ->
            [err |-> "failed to load variables for server " \o serverName \o ": " \o err,
             examples |-> examples]
      [] data.Disabled -> [err |-> NilErr, examples |-> examples]
      [] ~data.hasMeta -> [err |-> NilErr, examples |-> examples]
      [] OTHER ->
            [err |-> NilErr,
             examples |-> OfflinePeers(clusterName, serverName, data.Replicas, 1, examples)]

\* every (cluster, server) pair of the archive, cluster by cluster
ClusterServerPairs(ar) ==
    LET RECURSIVE From(_)
        From(k) ==
            IF k > Len(ar.clusters) THEN <<>>
            ELSE [i \in 1..Len(ar.clusters[k].servers) |->
                    [cluster |-> ar.clusters[k].name,
                     server  |-> ar.clusters[k].servers[i].name]] \o From(k + 1)
    IN  From(1)

RECURSIVE EachClusterServerJsz(_, _, _, _)
\* (*archive.Reader).EachClusterServerJsz with the callback above, from the
\* i-th pair on: it loads the pair's artifact, hands the load error and the
\* data to the callback, and stops with the first error the callback returns
EachClusterServerJsz(ar, pairs, i, examples) ==
    IF i > Len(pairs) THEN [err |-> NilErr, examples |-> examples]
    ELSE LET r == LoadJsz(ar, pairs[i].cluster, pairs[i].server)
             cb == OfflineCallback(pairs[i].cluster, pairs[i].server,
                                   r.err, r.data, examples)
         IN  IF cb.err # NilErr THEN cb
             ELSE EachClusterServerJsz(ar, pairs, i + 1, cb.examples)

\* func checkMetaClusterOfflineReplicas(_, r, examples, log) (Outcome, error)
checkMetaClusterOfflineReplicas(ar, examples) ==
    LET w == EachClusterServerJsz(ar, ClusterServerPairs(ar), 1, examples)
    IN  CASE w.err # NilErr ->
                [outcome |-> Skipped, err |-> w.err, examples |-> w.examples]
          [] Count(w.examples) > 0 ->
                [outcome |-> Fail, err |-> NilErr, examples |-> w.examples]
          [] OTHER ->
                [outcome |-> Pass, err |-> NilErr, examples |-> w.examples]

\* check.Handler(check, ar, examples): (outcome, err) and the collection after
CallHandler(check, ar, examples) ==
    [outcome  |-> check.Handler.outcome,
     err      |-> check.Handler.err,
     examples |-> AddExamples(examples, check.Code, 1, check.Handler.adds)]

-----------------------------------------------------------------------------
\* RunCheck (checks.go:249-258)

\* a RunCheck that passes the handler's outcome on even when it returned an error
RunCheckKeepOutcome(check, ar, limit) ==
    LET examples == newExamplesCollection(limit)
        h == CallHandler(check, ar, examples)
    IN  [outcome  |-> h.outcome,
         examples |-> IF h.err # NilErr
                      THEN [h.examples EXCEPT !.Error = h.err]
                      ELSE h.examples,
         calls    |-> <<[check |-> check, examples |-> examples]>>]

\* what RunCheck does with the (outcome, err) the handler returned as h, having
\* been given the collection examples
RunCheckReturn(check, examples, h) ==
    IF h.err # NilErr
    THEN [outcome  |-> Skipped,
          examples |-> [h.examples EXCEPT !.Error = h.err],
          calls    |-> <<[check |-> check, examples |-> examples]>>]
    ELSE [outcome  |-> h.outcome,
          examples |-> h.examples,
          calls    |-> <<[check |-> check, examples |-> examples]>>]

\* func RunCheck(check Check, ar *archive.Reader, limit uint) (Outcome, *ExamplesCollection);
\* calls records the handler invocations made and the collection each was given
RunCheck(check, ar, limit) ==
    LET examples == newExamplesCollection(limit)
    IN  RunCheckReturn(check, examples, CallHandler(check, ar, examples))

\* RunCheck of a check whose Handler is one of the meta-cluster checks
RunMetaCheck(check, ar, limit) ==
    LET examples == newExamplesCollection(limit)
    IN  RunCheckReturn(check, examples,
            IF check.Handler.kind = "metaLeader"
            THEN checkMetaClusterLeader(ar, examples)
            ELSE checkMetaClusterOfflineReplicas(ar, examples))

-----------------------------------------------------------------------------
\* RunChecks (checks.go:294-344)

\* Analysis.Type
AnalysisType == "io.nats.audit.v1.analysis"

\* the value of `analysis` before any run
NoAnalysis == [Type |-> "none"]

\* an empty map[string]int
EmptyMap == [k \in {} |-> 0]

\* m[k] = v on a Go map
MapSet(m, k, v) == [x \in (DOMAIN m) \cup {k} |-> IF x = k THEN v ELSE m[x]]

\* m[k]++ on a Go map: a missing key counts from zero
MapInc(m, k) == MapSet(m, k, (IF k \in DOMAIN m THEN m[k] ELSE 0) + 1)

RECURSIVE ZeroOutcomes(_, _)
\* for _, outcome := range Outcomes { result.Outcomes[outcome.String()] = 0 }
ZeroOutcomes(m, i) ==
    IF i > Len(Outcomes) THEN m
    ELSE ZeroOutcomes(MapSet(m, OutcomeString(Outcomes[i]), 0), i + 1)

\* a runner that enters no label before counting
InitOutcomesNone == EmptyMap

\* result.Outcomes after the loop of lines 310-312
InitOutcomes == ZeroOutcomes(EmptyMap, 1)

\* a skip test that compares the code exactly
ShouldRunExact(check, skip) ==
    ~ \E i \in 1..Len(skip.elems) : EqualExact(check.Code, skip.elems[i])

\* should := !slices.ContainsFunc(skip, func(s) { return strings.EqualFold(check.Code, s) })
ShouldRun(check, skip) ==
    ~ \E i \in 1..Len(skip.elems) : EqualFold(check.Code, skip.elems[i])

\* the body of the loop, lines 315-337: the CheckResult of one check and the
\* handler invocations made for it
CheckResultOf(check, ar, limit, skip) ==
    IF ShouldRun(check, skip)
    THEN LET r == RunCheck(check, ar, limit)
         IN  [res   |-> [Check         |-> check,
                         Outcome       |-> r.outcome,
                         OutcomeString |-> OutcomeString(r.outcome),
                         Examples      |-> IF Len(r.examples.Examples) > 0
                                           THEN r.examples
                                           ELSE ZeroExamples],
              calls |-> r.calls]
    ELSE [res   |-> [Check         |-> check,
                     Outcome       |-> Skipped,
                     OutcomeString |-> OutcomeString(Skipped),
                     Examples      |-> ZeroExamples],
          calls |-> <<>>]

\* a loop step that puts the new result in front
AppendResultFront(result, res) ==
    [result EXCEPT !.Results = <<res>> \o @,
                   !.Outcomes = MapInc(@, OutcomeString(res.Outcome))]

\* lines 339-340: result.Results = append(...); result.Outcomes[res.Outcome.String()]++
AppendResult(result, res) ==
    [result EXCEPT !.Results = Append(@, res),
                   !.Outcomes = MapInc(@, OutcomeString(res.Outcome))]

RECURSIVE RunLoopAbort(_, _, _, _, _, _, _)
\* a loop that stops at the first check whose handler returned an error
RunLoopAbort(checks, ar, limit, skip, i, result, calls) ==
    IF i > Len(checks) THEN [analysis |-> result, calls |-> calls]
    ELSE LET r == CheckResultOf(checks[i], ar, limit, skip)
         IN  IF r.calls # <<>> /\ checks[i].Handler.err # NilErr
             THEN [analysis |-> AppendResult(result, r.res), calls |-> calls \o r.calls]
             ELSE RunLoopAbort(checks, ar, limit, skip, i + 1,
                               AppendResult(result, r.res), calls \o r.calls)

RECURSIVE RunLoopSharedExamples(_, _, _, _, _, _, _)
\* a loop whose checks share one collection: each result starts from the
\* examples and error text of the result before it
RunLoopSharedExamples(checks, ar, limit, skip, i, result, calls) ==
    IF i > Len(checks) THEN [analysis |-> result, calls |-> calls]
    ELSE LET r == CheckResultOf(checks[i], ar, limit, skip)
             n == Len(result.Results)
             res == IF n = 0 THEN r.res
                    ELSE LET prev == result.Results[n].Examples
                         IN  [r.res EXCEPT
                                !.Examples.Examples = prev.Examples \o @,
                                !.Examples.Total = prev.Total + @,
                                !.Examples.Error = IF @ = "" THEN prev.Error ELSE @]
         IN  RunLoopSharedExamples(checks, ar, limit, skip, i + 1,
                                   AppendResult(result, res), calls \o r.calls)

RECURSIVE RunLoop(_, _, _, _, _, _, _)
\* for _, check := range checks { ... }, from the i-th check on
RunLoop(checks, ar, limit, skip, i, result, calls) ==
    IF i > Len(checks) THEN [analysis |-> result, calls |-> calls]
    ELSE LET r == CheckResultOf(checks[i], ar, limit, skip)
         IN  RunLoop(checks, ar, limit, skip, i + 1,
                     AppendResult(result, r.res), calls \o r.calls)

\* a runner that gives up when the metadata artifact does not load
RunChecksStrictMetadata(checks, ar, limit, skip, now) ==
    LET loaded == Load(ar, ZeroMetadata)
        result == [Type     |-> AnalysisType,
                   Time     |-> now,
                   Metadata |-> loaded.target,
                   Skipped  |-> IF skip.isNil THEN <<>> ELSE skip.elems,
                   Results  |-> <<>>,
                   Outcomes |-> InitOutcomes]
    IN  IF loaded.err # NilErr
        THEN [analysis |-> result, calls |-> <<>>]
        ELSE RunLoop(checks, ar, limit, skip, 1, result, <<>>)

\* the sequence in reverse
Reverse(seq) == [i \in 1..Len(seq) |-> seq[Len(seq) + 1 - i]]

\* a runner whose order of results depends on the time of the run
RunChecksTimedOrder(checks, ar, limit, skip, now) ==
    LET loaded == Load(ar, ZeroMetadata)
        result == [Type     |-> AnalysisType,
                   Time     |-> now,
                   Metadata |-> loaded.target,
                   Skipped  |-> IF skip.isNil THEN <<>> ELSE skip.elems,
                   Results  |-> <<>>,
                   Outcomes |-> InitOutcomes]
        r == RunLoop(checks, ar, limit, skip, 1, result, <<>>)
    IN  IF now % 2 = 0
        THEN [r EXCEPT !.analysis.Results = Reverse(@)]
        ELSE r

\* a runner that records the skip entries that matched a check, followed by
\* the codes of the checks whose handler returned an error
RunChecksSkippedAsRun(checks, ar, limit, skip, now) ==
    LET loaded == Load(ar, ZeroMetadata)
        matched(e) == \E i \in 1..Len(checks) : EqualFold(checks[i].Code, e)
        errored == SelectSeq(checks,
                       LAMBDA c : ShouldRun(c, skip) /\ c.Handler.err # NilErr)
        result == [Type     |-> AnalysisType,
                   Time     |-> now,
                   Metadata |-> loaded.target,
                   Skipped  |-> SelectSeq(skip.elems, matched)
                                    \o [i \in 1..Len(errored) |-> errored[i].Code],
                   Results  |-> <<>>,
                   Outcomes |-> InitOutcomes]
    IN  RunLoop(checks, ar, limit, skip, 1, result, <<>>)

\* func RunChecks(checks []Check, ar *archive.Reader, limit uint, skip []string) *Analysis;
\* the error Load returns is dropped
RunChecks(checks, ar, limit, skip, now) ==
    LET loaded == Load(ar, ZeroMetadata)
        result == [Type     |-> AnalysisType,
                   Time     |-> now,
                   Metadata |-> loaded.target,
                   Skipped  |-> IF skip.isNil THEN <<>> ELSE skip.elems,
                   Results  |-> <<>>,
                   Outcomes |-> InitOutcomes]
    IN  RunLoop(checks, ar, limit, skip, 1, result, <<>>)

-----------------------------------------------------------------------------
\* Inputs of the runner.

\* sequences over S of length at most n
SeqsUpTo(S, n) == UNION {[1..k -> S] : k \in 0..n}

\* check codes of the checks that are run
RunCodes == {<<"A", "b">>, <<"b">>}

\* entries of skip lists
SkipEntries == {<<"a", "B">>, <<"b">>}

\* error texts handlers return
ErrTexts == {"boom"}

\* every handler behaviour: an outcome, an error or none, some examples offered
AllHandlers ==
    [kind : {"scripted"}, outcome : {Pass, PassWithIssues, Fail, Skipped},
     err : {NilErr} \cup ErrTexts, adds : 0..MaxAdds]

\* the handler behaviours of the checks in a list
ListHandlers ==
    {[kind |-> "scripted", outcome |-> Pass,           err |-> NilErr, adds |-> 0],
     [kind |-> "scripted", outcome |-> PassWithIssues, err |-> NilErr, adds |-> 1],
     [kind |-> "scripted", outcome |-> Fail,           err |-> NilErr, adds |-> 2],
     [kind |-> "scripted", outcome |-> Skipped,        err |-> NilErr, adds |-> 0],
     [kind |-> "scripted", outcome |-> Pass,           err |-> "boom", adds |-> 0],
     [kind |-> "scripted", outcome |-> Fail,           err |-> "boom", adds |-> 1],
     [kind |-> "scripted", outcome |-> PassWithIssues, err |-> "boom", adds |-> 2]}

\* a valid Check value with the given code and handler
MkCheck(code, h) ==
    [Code |-> code, Name |-> "check", Description |-> "a check",
     Configuration |-> [isNil |-> FALSE, items |-> {}], Handler |-> h]

\* a []string: nil, or a slice of entries
SkipLists ==
    {[isNil |-> TRUE, elems |-> <<>>]}
        \cup {[isNil |-> FALSE, elems |-> e] : e \in SeqsUpTo(SkipEntries, MaxSkip)}

Archives == {[meta |-> "absent"], [meta |-> "present"]}

-----------------------------------------------------------------------------
\* The runner as a state machine: a caller makes one call on an archive.

EmptyRegistry == [n \in {} |-> NilHandler]

Init ==
    /\ pc = "idle"
    /\ archive \in Archives
    /\ clock = 1
    /\ args = [op |-> "none"]
    /\ analysis = NoAnalysis
    /\ handlerCalls = <<>>
    /\ rcResult = [outcome |-> Pass, examples |-> ZeroExamples]
    /\ registeredChecks = EmptyRegistry
    /\ checksConfiguration = EmptyRegistry
    /\ regResult = "none"
    /\ defaultSnaps = <<>>
    /\ configSnap = <<>>
    /\ item = NoItem
    /\ setResult = "none"
    /\ rerun = NoAnalysis
    /\ file = NoFile
    /\ loadResult = NoLoad
    /\ mutex = NoHolder
    /\ procs = NoProcs
    /\ policy = NoPolicy
    /\ codecResult = NoCodec

\* a call of RunCheck
DoRunCheck ==
    /\ pc = "idle"
    /\ \E code \in RunCodes, h \in AllHandlers, limit \in 0..MaxLimit :
         LET check == MkCheck(code, h)
             r == RunCheck(check, archive, limit)
         IN  /\ args' = [op |-> "RunCheck", check |-> check, limit |-> limit]
             /\ rcResult' = [outcome |-> r.outcome, examples |-> r.examples]
             /\ handlerCalls' = r.calls
    /\ pc' = "ranCheck"
    /\ UNCHANGED <<archive, clock, analysis, regVars, readVars, cfgVars,
                   rerun, fileVars, concVars, enumVars>>

\* a call of RunChecks
DoRunChecks ==
    /\ pc = "idle"
    /\ \E codes \in SeqsUpTo(RunCodes, MaxChecks), limit \in 0..MaxLimit,
          skip \in SkipLists :
         \E hs \in [1..Len(codes) -> ListHandlers] :
           LET checks == [i \in 1..Len(codes) |-> MkCheck(codes[i], hs[i])]
               r == RunChecks(checks, archive, limit, skip, clock)
           IN  /\ args' = [op |-> "RunChecks", checks |-> checks,
                           limit |-> limit, skip |-> skip]
               /\ analysis' = r.analysis
               /\ handlerCalls' = r.calls
    /\ pc' = "ranChecks"
    /\ clock' = clock + 1
    /\ UNCHANGED <<archive, rcResult, regVars, readVars, cfgVars,
                   rerun, fileVars, concVars, enumVars>>

Next == DoRunCheck \/ DoRunChecks

Spec == Init /\ [][Next]_vars

-----------------------------------------------------------------------------
\* Properties of the runner.

\* s and t are equal once both are lower-cased
SameIgnoringCase(s, t) == ToLower(s) = ToLower(t)

\* the code of the i-th check of the call is on the call's skip list
Listed(i) ==
    \E j \in 1..Len(args.skip.elems) :
        SameIgnoringCase(args.checks[i].Code, args.skip.elems[j])

\* how many of the first i checks of the call are not on the skip list
RunIndex(i) == Cardinality({m \in 1..i : ~Listed(m)})

\* the error the handler of the i-th check returns
HandlerErr(i) == args.checks[i].Handler.err

\* how many results carry the label
CountLabel(label) ==
    Cardinality({i \in 1..Len(analysis.Results) :
                    OutcomeString(analysis.Results[i].Outcome) = label})

\* C1: the Analysis RunChecks returns has one result per check, its Outcomes
\* map has exactly the keys PASS, WARN, FAIL and SKIP, each mapped to the number
\* of results with that label, and the four counts sum to the number of checks.
C1_Accounting ==
    pc = "ranChecks" =>
        /\ Len(analysis.Results) = Len(args.checks)
        /\ DOMAIN analysis.Outcomes = {"PASS", "WARN", "FAIL", "SKIP"}
        /\ \A l \in DOMAIN analysis.Outcomes : analysis.Outcomes[l] = CountLabel(l)
        /\ analysis.Outcomes["PASS"] + analysis.Outcomes["WARN"]
             + analysis.Outcomes["FAIL"] + analysis.Outcomes["SKIP"]
           = Len(args.checks)

\* a run of two checks, one failing and one whose handler returned an error
C1_Witness ==
    /\ pc = "ranChecks"
    /\ Len(args.checks) = 2
    /\ \E i \in 1..2 : ~Listed(i) /\ HandlerErr(i) # NilErr
    /\ analysis.Outcomes["FAIL"] = 1
    /\ analysis.Outcomes["SKIP"] = 1
    /\ analysis.Outcomes["PASS"] = 0

\* C2: a check whose code is on the skip list, compared without regard to
\* case, gets outcome Skipped, no examples and no error text, and its handler
\* is not invoked; the other checks are run through RunCheck, in order, each
\* with a fresh collection, and get the outcome RunCheck returns.
C2_SkipList ==
    pc = "ranChecks" =>
        /\ Len(analysis.Results) = Len(args.checks)
        /\ Len(handlerCalls) = RunIndex(Len(args.checks))
        /\ \A i \in 1..Len(args.checks) :
             IF Listed(i)
             THEN /\ analysis.Results[i].Outcome = Skipped
                  /\ analysis.Results[i].Examples.Examples = <<>>
                  /\ analysis.Results[i].Examples.Error = ""
                  /\ \A k \in 1..Len(handlerCalls) :
                       handlerCalls[k].check.Code # args.checks[i].Code
             ELSE /\ handlerCalls[RunIndex(i)].check = args.checks[i]
                  /\ handlerCalls[RunIndex(i)].examples
                       = [Examples |-> <<>>, Limit |-> args.limit,
                          Total |-> 0, Error |-> ""]
                  /\ analysis.Results[i].Outcome
                       = RunCheck(args.checks[i], archive, args.limit).outcome

\* a check listed under another case is skipped although its handler would
\* fail with examples, next to a check that is run
C2_Witness ==
    /\ pc = "ranChecks"
    /\ Len(args.checks) = 2
    /\ Listed(1)
    /\ \A j \in 1..Len(args.skip.elems) : args.skip.elems[j] # args.checks[1].Code
    /\ args.checks[1].Handler.outcome = Fail
    /\ args.checks[1].Handler.adds > 0
    /\ ~Listed(2)
    /\ Len(handlerCalls) = 1

\* C3: Results preserves the order of the input checks: Results[i].Check is
\* checks[i] for every index i.
C3_Order ==
    pc = "ranChecks" =>
        /\ DOMAIN analysis.Results = DOMAIN args.checks
        /\ \A i \in DOMAIN args.checks : analysis.Results[i].Check = args.checks[i]

\* two different checks, the first skipped by the list, the second in error
C3_Witness ==
    /\ pc = "ranChecks"
    /\ Len(args.checks) = 2
    /\ args.checks[1] # args.checks[2]
    /\ Listed(1)
    /\ ~Listed(2) /\ HandlerErr(2) # NilErr

\* C4: a handler error at position i does not stop the run: every later check
\* has its own result, is skip-listed or has had its handler invoked, and the
\* Analysis is complete.
C4_ErrorNeverAborts ==
    pc = "ranChecks" =>
        \A i \in 1..Len(args.checks) :
            (~Listed(i) /\ HandlerErr(i) # NilErr) =>
                /\ analysis.Type = AnalysisType
                /\ Len(analysis.Results) = Len(args.checks)
                /\ \A j \in (i + 1)..Len(args.checks) :
                     /\ analysis.Results[j].Check = args.checks[j]
                     /\ \/ Listed(j)
                        \/ /\ RunIndex(j) \in DOMAIN handlerCalls
                           /\ handlerCalls[RunIndex(j)].check = args.checks[j]

\* the first handler returns an error and the second check still fails on its own
C4_Witness ==
    /\ pc = "ranChecks"
    /\ Len(args.checks) = 2
    /\ ~Listed(1) /\ HandlerErr(1) # NilErr
    /\ ~Listed(2) /\ HandlerErr(2) = NilErr
    /\ analysis.Results[2].Outcome = Fail

\* C5: RunCheck invokes the handler once, with a new empty collection bounded
\* to the limit; on an error it returns Skipped and the error's text in the
\* collection's Error field, otherwise the handler's outcome.
C5_RunCheck ==
    pc = "ranCheck" =>
        /\ Len(handlerCalls) = 1
        /\ handlerCalls[1].check = args.check
        /\ handlerCalls[1].examples
             = [Examples |-> <<>>, Limit |-> args.limit, Total |-> 0, Error |-> ""]
        /\ IF args.check.Handler.err # NilErr
           THEN /\ rcResult.outcome = Skipped
                /\ rcResult.examples.Error = args.check.Handler.err
           ELSE /\ rcResult.outcome = args.check.Handler.outcome
                /\ rcResult.examples.Error = ""

\* a handler that returns Fail together with an error
C5_Witness ==
    /\ pc = "ranCheck"
    /\ args.check.Handler.err # NilErr
    /\ args.check.Handler.outcome = Fail
    /\ rcResult.outcome = Skipped
    /\ rcResult.examples.Error = "boom"

\* C6: in the Analysis, the result of every executed check whose handler
\* returned an error has outcome Skipped and carries the error's text in
\* Examples.Error, also when the handler added no examples.
C6_ErrorTextKept ==
    pc = "ranChecks" =>
        \A i \in 1..Len(args.checks) :
            (~Listed(i) /\ HandlerErr(i) # NilErr) =>
                /\ analysis.Results[i].Outcome = Skipped
                /\ analysis.Results[i].Examples.Error = HandlerErr(i)

\* the outcome RunChecks is to give the i-th check, whatever the archive holds
ExpectedOutcome(i) ==
    IF Listed(i) \/ HandlerErr(i) # NilErr THEN Skipped
    ELSE args.checks[i].Handler.outcome

\* C7: when the metadata artifact is absent the Analysis is still produced,
\* its Metadata is the zero value, every check is processed and no outcome
\* reflects the failed load.
C7_MetadataAbsent ==
    (pc = "ranChecks" /\ Load(archive, ZeroMetadata).err = ErrNoMatches) =>
        /\ analysis.Type = AnalysisType
        /\ analysis.Metadata = ZeroMetadata
        /\ Len(analysis.Results) = Len(args.checks)
        /\ Len(handlerCalls) = RunIndex(Len(args.checks))
        /\ \A i \in 1..Len(args.checks) :
             analysis.Results[i].Outcome = ExpectedOutcome(i)

\* a run on an archive without metadata in which a check passes and one fails
C7_Witness ==
    /\ pc = "ranChecks"
    /\ archive.meta = "absent"
    /\ Len(args.checks) = 2
    /\ analysis.Outcomes["PASS"] = 1
    /\ analysis.Outcomes["FAIL"] = 1

-----------------------------------------------------------------------------
\* The check registry (checks.go:117-166). The two package-level maps are the
\* state; MustRegisterCheck holds registeredChecksMu from entry to return, so
\* a call is one step. A panic is recorded in regResult and leaves the maps as
\* they were when it was raised.

\* the result of a call that returned normally
RegOk == "ok"

PanicCode == "check code is required"
PanicName == "check name is required"
PanicDescription == "check description is required"
PanicHandler == "check implementation is required"
PanicRegistered == "check already registered"
PanicConfigKey == "configuration key is required"
PanicConfigDescription == "configuration description is required"

\* func configItemKey(code string, key string) string
configItemKey(code, key) == ToLower(code) \o <<"_">> \o key

RECURSIVE ConfigLoop(_, _, _, _)
\* for _, cfg := range check.Configuration { ... }, in the order the map
\* iteration takes, from the i-th item on: the index afterwards and the panic
\* raised, if any
ConfigLoop(config, code, order, i) ==
    IF i > Len(order) THEN [config |-> config, panic |-> ""]
    ELSE IF order[i].Key = <<>>
         THEN [config |-> config, panic |-> PanicConfigKey]
    ELSE IF order[i].Description = ""
         THEN [config |-> config, panic |-> PanicConfigDescription]
    ELSE ConfigLoop(MapSet(config, configItemKey(code, order[i].Key),
                           [order[i] EXCEPT !.Check = code]),
                    code, order, i + 1)

\* check.Configuration after the loop set cfg.Check on every item
OwnedConfiguration(check) ==
    [isNil |-> FALSE,
     items |-> {[cfg EXCEPT !.Check = check.Code] : cfg \in check.Configuration.items}]

\* the orders in which a range over the map can visit the items
IterationOrders(items) ==
    {o \in [1..Cardinality(items) -> items] :
        \A i, j \in 1..Cardinality(items) : i # j => o[i] # o[j]}

\* what a failed or finished configuration loop leaves behind for the check
AfterConfigLoop(st, check, c) ==
    IF c.panic # ""
    THEN [registered |-> st.registered, config |-> c.config, result |-> c.panic]
    ELSE [registered |-> MapSet(st.registered, check.Name,
                                [check EXCEPT !.Configuration = OwnedConfiguration(check)]),
          config     |-> c.config,
          result     |-> RegOk]

\* a registration that overwrites a check of the same name
RegisterOneOverwrite(st, check) ==
    IF check.Code = <<>> THEN {[st EXCEPT !.result = PanicCode]}
    ELSE IF check.Name = "" THEN {[st EXCEPT !.result = PanicName]}
    ELSE IF check.Description = "" THEN {[st EXCEPT !.result = PanicDescription]}
    ELSE IF check.Handler = NilHandler THEN {[st EXCEPT !.result = PanicHandler]}
    ELSE {AfterConfigLoop(st, check, ConfigLoop(st.config, check.Code, order, 1)) :
            order \in IterationOrders(check.Configuration.items)}

\* a registration that does not ask for a description
RegisterOneNoDescription(st, check) ==
    IF check.Code = <<>> THEN {[st EXCEPT !.result = PanicCode]}
    ELSE IF check.Name = "" THEN {[st EXCEPT !.result = PanicName]}
    ELSE IF check.Handler = NilHandler THEN {[st EXCEPT !.result = PanicHandler]}
    ELSE IF check.Name \in DOMAIN st.registered
         THEN {[st EXCEPT !.result = PanicRegistered]}
    ELSE {AfterConfigLoop(st, check, ConfigLoop(st.config, check.Code, order, 1)) :
            order \in IterationOrders(check.Configuration.items)}

\* the body of the loop of MustRegisterCheck, lines 127-160, for one check: the
\* states it can leave, one for each order of the range over the configuration
\* map; st is (registeredChecks, checksConfiguration, result so far)
RegisterOne(st, check) ==
    IF check.Code = <<>> THEN {[st EXCEPT !.result = PanicCode]}
    ELSE IF check.Name = "" THEN {[st EXCEPT !.result = PanicName]}
    ELSE IF check.Description = "" THEN {[st EXCEPT !.result = PanicDescription]}
    ELSE IF check.Handler = NilHandler THEN {[st EXCEPT !.result = PanicHandler]}
    ELSE IF check.Name \in DOMAIN st.registered
         THEN {[st EXCEPT !.result = PanicRegistered]}
    ELSE {AfterConfigLoop(st, check, ConfigLoop(st.config, check.Code, order, 1)) :
            order \in IterationOrders(check.Configuration.items)}

RECURSIVE MustRegisterCheck(_, _, _)
\* func MustRegisterCheck(checks ...Check), from the i-th check on: the states
\* the call can end in; the first panic ends it
MustRegisterCheck(st, checks, i) ==
    IF i > Len(checks) THEN {st}
    ELSE UNION {IF r.result # RegOk THEN {r}
                ELSE MustRegisterCheck(r, checks, i + 1) :
                    r \in RegisterOne(st, checks[i])}

-----------------------------------------------------------------------------
\* Snapshots of the registry (checks.go:206-247). Both hold registeredChecksMu
\* for the whole call. The range over a Go map visits the entries in any order
\* and sort.Slice is not stable, so a call can return any arrangement of the
\* entries that its comparison accepts as sorted.

\* the byte of a character, for the characters the model uses
CharRank(ch) ==
    CASE ch = "A" -> 65
      [] ch = "B" -> 66
      [] ch = "_" -> 95
      [] ch = "a" -> 97
      [] ch = "b" -> 98
      [] ch = "c" -> 99
      [] ch = "j" -> 106
      [] ch = "k" -> 107
      [] OTHER -> 0

\* s < t on Go strings: byte-wise lexicographic order
StrLess(s, t) ==
    \/ /\ Len(s) < Len(t)
       /\ \A i \in 1..Len(s) : s[i] = t[i]
    \/ \E i \in 1..Len(s) :
         /\ i <= Len(t)
         /\ \A j \in 1..(i - 1) : s[j] = t[j]
         /\ CharRank(s[i]) < CharRank(t[i])

\* a snapshot of the catalog in whatever order the map gave it
GetDefaultChecksUnsorted(registered) ==
    {[i \in 1..Len(o) |-> registered[o[i]]] : o \in IterationOrders(DOMAIN registered)}

\* func GetDefaultChecks() []Check: the slices a call can return
GetDefaultChecks(registered) ==
    {[i \in 1..Len(o) |-> registered[o[i]]] :
        o \in {o \in IterationOrders(DOMAIN registered) :
                 \A i, j \in 1..Len(o) :
                     i < j => ~StrLess(registered[o[j]].Code, registered[o[i]].Code)}}

\* a snapshot of the index in whatever order the map gave it
GetConfigurationItemsUnsorted(config) ==
    {[i \in 1..Len(o) |-> config[o[i]]] : o \in IterationOrders(DOMAIN config)}

\* func GetConfigurationItems() []CheckConfiguration: the slices a call can return
GetConfigurationItems(config) ==
    {[i \in 1..Len(o) |-> config[o[i]]] :
        o \in {o \in IterationOrders(DOMAIN config) :
                 \A i, j \in 1..Len(o) :
                     i < j => ~StrLess(config[o[j]].Key, config[o[i]].Key)}}

-----------------------------------------------------------------------------
\* Inputs of the registry.

\* a handler that passes
PassHandler == [kind |-> "scripted", outcome |-> Pass, err |-> NilErr, adds |-> 0]

\* configuration items as a caller writes them: Check is set by the registry
GoodItem ==
    [Key |-> <<"k">>, Check |-> <<>>, Description |-> "a setting",
     Default |-> 1, Unit |-> "int"]
NoKeyItem == [GoodItem EXCEPT !.Key = <<>>]
NoDescriptionItem == [GoodItem EXCEPT !.Key = <<"j">>, !.Description = ""]

\* a nil map, and a map holding the items
NilConfiguration == [isNil |-> TRUE, items |-> {}]
Configuration(items) == [isNil |-> FALSE, items |-> items]

\* checks that have every required field
ValidChecks ==
    {[Code |-> code, Name |-> name, Description |-> "a check",
      Configuration |-> cfg, Handler |-> PassHandler] :
        code \in {<<"A">>, <<"a">>}, name \in {"n1", "n2"},
        cfg \in {NilConfiguration, Configuration({GoodItem})}}

\* the checks the flawed checks are made from
FlawBases ==
    {c \in ValidChecks :
        /\ c.Configuration = Configuration({GoodItem})
        /\ <<c.Code, c.Name>> \in {<<(<<"A">>), "n1">>, <<(<<"a">>), "n2">>}}

\* checks with one required field missing or one bad configuration item
FlawedChecks ==
    UNION {{[base EXCEPT !.Code = <<>>],
            [base EXCEPT !.Name = ""],
            [base EXCEPT !.Description = ""],
            [base EXCEPT !.Handler = NilHandler],
            [base EXCEPT !.Configuration = Configuration({GoodItem, NoKeyItem})],
            [base EXCEPT !.Configuration = Configuration({GoodItem, NoDescriptionItem})]} :
              base \in FlawBases}

\* two checks whose codes and keys contain the separator of configItemKey
SeparatorChecks ==
    {[Code |-> <<"a", "_", "b">>, Name |-> "n1", Description |-> "a check",
      Configuration |-> Configuration({[GoodItem EXCEPT !.Key = <<"c">>]}),
      Handler |-> PassHandler],
     [Code |-> <<"a">>, Name |-> "n2", Description |-> "a check",
      Configuration |-> Configuration({[GoodItem EXCEPT !.Key = <<"b", "_", "c">>]}),
      Handler |-> PassHandler]}

CheckPool == ValidChecks \cup SeparatorChecks \cup FlawedChecks

\* the argument lists of a MustRegisterCheck call
Batches == UNION {[1..k -> CheckPool] : k \in 1..MaxBatch}

-----------------------------------------------------------------------------
\* The registry as a state machine.

RegInit ==
    /\ pc = "idle"
    /\ archive = [meta |-> "absent"]
    /\ clock = 1
    /\ args = [op |-> "none"]
    /\ analysis = NoAnalysis
    /\ handlerCalls = <<>>
    /\ rcResult = [outcome |-> Pass, examples |-> ZeroExamples]
    /\ registeredChecks = EmptyRegistry
    /\ checksConfiguration = EmptyRegistry
    /\ regResult = "none"
    /\ defaultSnaps = <<>>
    /\ configSnap = <<>>
    /\ item = NoItem
    /\ setResult = "none"
    /\ rerun = NoAnalysis
    /\ file = NoFile
    /\ loadResult = NoLoad
    /\ mutex = NoHolder
    /\ procs = NoProcs
    /\ policy = NoPolicy
    /\ codecResult = NoCodec

\* the registry as MustRegisterCheck sees it
RegState ==
    [registered |-> registeredChecks, config |-> checksConfiguration, result |-> RegOk]

\* a call of MustRegisterCheck; a panic is recovered by the caller
DoRegister ==
    /\ \E checks \in Batches :
         \E r \in MustRegisterCheck(RegState, checks, 1) :
           /\ registeredChecks' = r.registered
           /\ checksConfiguration' = r.config
           /\ regResult' = r.result
    /\ UNCHANGED <<runVars, readVars, cfgVars,
                   rerun, fileVars, concVars, enumVars>>

RegNext == DoRegister

RegSpec == RegInit /\ [][RegNext]_vars

-----------------------------------------------------------------------------
\* The registry with its readers: registrations of one check at a time, and
\* snapshot calls in between.

\* MustRegisterCheck(check); the snapshots taken before it are history
DoRegisterCheck ==
    /\ \E check \in CheckPool :
         \E r \in MustRegisterCheck(RegState, <<check>>, 1) :
           /\ registeredChecks' = r.registered
           /\ checksConfiguration' = r.config
           /\ regResult' = r.result
    /\ defaultSnaps' = <<>>
    /\ configSnap' = <<>>
    /\ UNCHANGED <<runVars, cfgVars,
                   rerun, fileVars, concVars, enumVars>>

\* a call of GetDefaultChecks; the last two results are kept
DoGetDefaultChecks ==
    /\ \E res \in GetDefaultChecks(registeredChecks) :
         defaultSnaps' = IF Len(defaultSnaps) < 2
                         THEN Append(defaultSnaps, res)
                         ELSE <<defaultSnaps[2], res>>
    /\ UNCHANGED <<runVars, regVars, configSnap, cfgVars,
                   rerun, fileVars, concVars, enumVars>>

\* a call of GetConfigurationItems
DoGetConfigurationItems ==
    /\ \E res \in GetConfigurationItems(checksConfiguration) :
         configSnap' = <<res>>
    /\ UNCHANGED <<runVars, regVars, defaultSnaps, cfgVars,
                   rerun, fileVars, concVars, enumVars>>

ReadNext == DoRegisterCheck \/ DoGetDefaultChecks \/ DoGetConfigurationItems

ReadSpec == RegInit /\ [][ReadNext]_vars

-----------------------------------------------------------------------------
\* Properties of the registry. A property of "registering a check" is stated
\* over every reachable registry and every check of the pool: each state a
\* MustRegisterCheck call on that one check can end in.

\* the states a call of MustRegisterCheck(check) can end in from here
Registering(check) == MustRegisterCheck(RegState, <<check>>, 1)

\* C8: registering a check whose name is already in the catalog fails and
\* leaves the catalog, with the check registered under that name, unchanged;
\* no two catalog entries share a name.
C8_DuplicateName ==
    /\ \A n \in DOMAIN registeredChecks : registeredChecks[n].Name = n
    /\ \A check \in CheckPool :
         check.Name \in DOMAIN registeredChecks =>
             \A r \in Registering(check) :
                 /\ r.result # RegOk
                 /\ r.registered = registeredChecks

\* a call was refused because the name was taken
C8_Witness ==
    /\ regResult = PanicRegistered
    /\ DOMAIN registeredChecks # {}

\* C9: no two registered checks have the same code, and registering a check
\* whose code is that of a check registered under another name fails.
C9_CodesUnique ==
    /\ \A n, m \in DOMAIN registeredChecks :
         n # m => registeredChecks[n].Code # registeredChecks[m].Code
    /\ \A check \in CheckPool :
         (\E n \in DOMAIN registeredChecks :
             n # check.Name /\ registeredChecks[n].Code = check.Code) =>
             \A r \in Registering(check) : r.result # RegOk

\* the check lacks a required field or has a configuration item that does
HasFlaw(check) ==
    \/ check.Code = <<>>
    \/ check.Name = ""
    \/ check.Description = ""
    \/ check.Handler = NilHandler
    \/ \E cfg \in check.Configuration.items : cfg.Key = <<>> \/ cfg.Description = ""

\* C10: registration fails for a check with an empty code, name or
\* description, without handler, or with a configuration item whose key or
\* description is empty; a check without such a flaw and with an unused name
\* is accepted, a nil configuration map being replaced by an empty one.
C10_Validation ==
    \A check \in CheckPool :
        \A r \in Registering(check) :
            IF HasFlaw(check)
            THEN /\ r.result # RegOk
                 /\ r.registered = registeredChecks
            ELSE check.Name \notin DOMAIN registeredChecks =>
                 /\ r.result = RegOk
                 /\ DOMAIN r.registered = DOMAIN registeredChecks \cup {check.Name}
                 /\ r.registered[check.Name].Code = check.Code
                 /\ r.registered[check.Name].Name = check.Name
                 /\ r.registered[check.Name].Description = check.Description
                 /\ r.registered[check.Name].Handler = check.Handler
                 /\ r.registered[check.Name].Configuration.isNil = FALSE
                 /\ check.Configuration.isNil =>
                      r.registered[check.Name].Configuration.items = {}

\* a check given without configuration is in the catalog with an empty map,
\* and the last call was refused for a configuration item without description
C10_Witness ==
    /\ regResult = PanicConfigDescription
    /\ \E n \in DOMAIN registeredChecks :
         registeredChecks[n].Configuration = [isNil |-> FALSE, items |-> {}]

\* every item of the configuration index belongs to a check of the catalog
IndexedItemsRegistered ==
    \A k \in DOMAIN checksConfiguration :
        \E n \in DOMAIN registeredChecks :
            /\ registeredChecks[n].Code = checksConfiguration[k].Check
            /\ checksConfiguration[k] \in registeredChecks[n].Configuration.items

\* C11: a failed registration leaves nothing of the failing check behind:
\* after a call that panicked every item of the configuration index, which is
\* what ConfigurationItems returns, belongs to a check of the catalog, which
\* is what DefaultChecks returns.
C11_FailedLeavesNothing ==
    regResult \notin {"none", RegOk} => IndexedItemsRegistered

\* C12: configuration items of checks with different codes do not collide:
\* when the registered checks have pairwise different codes (and no failed
\* registration left an item behind), every configuration item of every
\* registered check is in the index.
C12_NoCollision ==
    (/\ IndexedItemsRegistered
     /\ \A n, m \in DOMAIN registeredChecks :
          n # m => registeredChecks[n].Code # registeredChecks[m].Code) =>
        \A n \in DOMAIN registeredChecks :
            \A cfg \in registeredChecks[n].Configuration.items :
                \E k \in DOMAIN checksConfiguration : checksConfiguration[k] = cfg

\* the sequence holds each value of the map exactly once
Enumerates(seq, map) ==
    /\ Len(seq) = Cardinality(DOMAIN map)
    /\ \A k \in DOMAIN map : \E i \in 1..Len(seq) : seq[i] = map[k]
    /\ \A i \in 1..Len(seq) : \E k \in DOMAIN map : seq[i] = map[k]

\* C13: DefaultChecks returns exactly the checks of the catalog, each once, in
\* non-decreasing order of code, and two calls with no registration in
\* between return the same sequence.
C13_DefaultChecks ==
    /\ \A c \in 1..Len(defaultSnaps) :
         /\ Enumerates(defaultSnaps[c], registeredChecks)
         /\ \A i, j \in 1..Len(defaultSnaps[c]) :
              i < j => ~StrLess(defaultSnaps[c][j].Code, defaultSnaps[c][i].Code)
    /\ Len(defaultSnaps) = 2 => defaultSnaps[1] = defaultSnaps[2]

-----------------------------------------------------------------------------
\* CheckConfiguration: Value and Set (checks.go:35-101).
\*
\* A float64 is a record: a finite number counted in units of 1/Scale, or one
\* of NaN, +Inf, -Inf. The text handed to Set is a sequence of one-character
\* strings, parsed as strconv.ParseFloat parses it.

\* resolution of the finite numbers: 1 is Scale units
Scale == 10000

Fin(n) == [kind |-> "num", n |-> n]
NaN == [kind |-> "nan", n |-> 0]
PosInf == [kind |-> "+inf", n |-> 0]
NegInf == [kind |-> "-inf", n |-> 0]

\* a < b on float64: false whenever one side is NaN
FLess(a, b) ==
    CASE a.kind = "nan" \/ b.kind = "nan" -> FALSE
      [] a.kind = "-inf" -> b.kind # "-inf"
      [] a.kind = "+inf" -> FALSE
      [] b.kind = "-inf" -> FALSE
      [] b.kind = "+inf" -> TRUE
      [] OTHER -> a.n < b.n

\* f / 100 on float64
FDiv100(f) == IF f.kind = "num" THEN Fin(f.n \div 100) ELSE f

\* -f on float64
FNeg(f) ==
    CASE f.kind = "num" -> Fin(0 - f.n)
      [] f.kind = "+inf" -> NegInf
      [] f.kind = "-inf" -> PosInf
      [] OTHER -> f

Digits == {"0", "1", "2", "3", "4", "5", "6", "7", "8", "9"}

DigitVal(ch) ==
    CASE ch = "0" -> 0 [] ch = "1" -> 1 [] ch = "2" -> 2 [] ch = "3" -> 3
      [] ch = "4" -> 4 [] ch = "5" -> 5 [] ch = "6" -> 6 [] ch = "7" -> 7
      [] ch = "8" -> 8 [] ch = "9" -> 9 [] OTHER -> 0

RECURSIVE Pow10(_)
Pow10(k) == IF k = 0 THEN 1 ELSE 10 * Pow10(k - 1)

RECURSIVE DecimalUnits(_, _, _)
\* the digits body[i..] before position dot are whole numbers, those after it
\* are tenths, hundredths, ...; the sum in units of 1/Scale
DecimalUnits(body, i, dot) ==
    IF i > Len(body) THEN 0
    ELSE (CASE i < dot -> DigitVal(body[i]) * Scale * Pow10(dot - 1 - i)
            [] i = dot -> 0
            [] OTHER   -> (DigitVal(body[i]) * Scale) \div Pow10(i - dot))
         + DecimalUnits(body, i + 1, dot)

\* the special values strconv.ParseFloat accepts in any letter case
IsNaNText(s) ==
    /\ Len(s) = 3
    /\ s[1] \in {"n", "N"} /\ s[2] \in {"a", "A"} /\ s[3] \in {"n", "N"}

IsInfText(s) ==
    /\ Len(s) = 3
    /\ s[1] \in {"i", "I"} /\ s[2] \in {"n", "N"} /\ s[3] \in {"f", "F"}

ErrSyntax == "invalid syntax"

\* strconv.ParseFloat(s, 64) for texts of signs, digits, one point and the
\* special values: (f, err)
ParseFloat(s) ==
    LET signed == Len(s) > 0 /\ s[1] \in {"+", "-"}
        neg    == Len(s) > 0 /\ s[1] = "-"
        body   == IF signed THEN Tail(s) ELSE s
        dots   == {i \in 1..Len(body) : body[i] = "."}
        dot    == IF dots = {} THEN Len(body) + 1 ELSE CHOOSE i \in dots : TRUE
        wellFormed ==
            /\ \A i \in 1..Len(body) : body[i] \in Digits \cup {"."}
            /\ Cardinality(dots) <= 1
            /\ Len(body) - Cardinality(dots) >= 1
        mag == CASE IsNaNText(s) -> NaN
                 [] IsInfText(body) -> PosInf
                 [] OTHER -> Fin(DecimalUnits(body, 1, dot))
    IN  IF IsNaNText(s) \/ IsInfText(body) \/ wellFormed
        THEN [f |-> IF neg THEN FNeg(mag) ELSE mag, err |-> NilErr]
        ELSE [f |-> Fin(0), err |-> ErrSyntax]

RECURSIVE TrimRightPercent(_)
\* strings.TrimRight(v, "%"): every trailing % is cut
TrimRightPercent(v) ==
    IF Len(v) > 0 /\ v[Len(v)] = "%"
    THEN TrimRightPercent(SubSeq(v, 1, Len(v) - 1))
    ELSE v

PercentageUnit == "%"
IntUnit == "int"
UIntUnit == "uint"

ErrPercentNegative == "percentage values must be positive"
ErrPercentAbove == "percentage values may not exceed 100"
ErrNegative == "value must be positive"

\* a nil *float64
NilValue == [isNil |-> TRUE, v |-> Fin(0)]
ValueOf(f) == [isNil |-> FALSE, v |-> f]

\* func (c *CheckConfiguration) Value() float64
Value(c) == IF ~c.SetValue.isNil THEN c.SetValue.v ELSE c.Default

\* a Set that stores what it parsed before it validates
SetStoreFirst(c, v) ==
    LET p == ParseFloat(IF c.Unit = PercentageUnit THEN TrimRightPercent(v) ELSE v)
        stored == [c EXCEPT !.SetValue = ValueOf(p.f)]
    IN  CASE p.err # NilErr -> [item |-> c, err |-> p.err]
          [] c.Unit = PercentageUnit /\ FLess(p.f, Fin(0)) ->
                [item |-> stored, err |-> ErrPercentNegative]
          [] c.Unit = PercentageUnit /\ FLess(Fin(100 * Scale), p.f) ->
                [item |-> stored, err |-> ErrPercentAbove]
          [] c.Unit = PercentageUnit /\ FLess(Fin(Scale), p.f) ->
                [item |-> [c EXCEPT !.SetValue = ValueOf(FDiv100(p.f))], err |-> NilErr]
          [] c.Unit = UIntUnit /\ FLess(p.f, Fin(0)) ->
                [item |-> stored, err |-> ErrNegative]
          [] OTHER -> [item |-> stored, err |-> NilErr]

\* func (c *CheckConfiguration) Set(v string) error: the item after the call
\* and the error returned
Set(c, v) ==
    IF c.Unit = PercentageUnit
    THEN LET p == ParseFloat(TrimRightPercent(v))
         IN  CASE p.err # NilErr -> [item |-> c, err |-> p.err]
               [] FLess(p.f, Fin(0)) -> [item |-> c, err |-> ErrPercentNegative]
               [] FLess(Fin(100 * Scale), p.f) -> [item |-> c, err |-> ErrPercentAbove]
               [] OTHER ->
                    LET f == IF FLess(Fin(Scale), p.f) THEN FDiv100(p.f) ELSE p.f
                    IN  [item |-> [c EXCEPT !.SetValue = ValueOf(f)], err |-> NilErr]
    ELSE LET p == ParseFloat(v)
         IN  CASE p.err # NilErr -> [item |-> c, err |-> p.err]
               [] c.Unit = UIntUnit /\ FLess(p.f, Fin(0)) ->
                    [item |-> c, err |-> ErrNegative]
               [] OTHER -> [item |-> [c EXCEPT !.SetValue = ValueOf(p.f)], err |-> NilErr]

\* Inputs of Value and Set.

Units == {PercentageUnit, IntUnit, UIntUnit}

\* defaults: one half and three
Defaults == {Fin(Scale \div 2), Fin(3 * Scale)}

CfgItems ==
    {[Key |-> <<"k">>, Check |-> <<"a">>, Description |-> "an item",
      Default |-> d, Unit |-> u, SetValue |-> NilValue] : u \in Units, d \in Defaults}

\* the texts handed to Set
SetTexts ==
    { <<"0">>, <<"1">>, <<"5", "0">>, <<"1", "0", "0">>, <<"1", "0", "1">>,
      <<"0", ".", "5">>, <<"1", ".", "5">>, <<"-", "1">>,
      <<"5", "0", "%">>, <<"5", "0", "%", "%">>, <<"1", "5", "0", "%">>,
      <<"0", "%">>, <<"0", ".", "5", "%">>, <<"1", "%">>, <<"1", "0", "0", "%">>,
      <<"%">>, <<>>, <<"x">>, <<"1", ".", "2", ".", "3">>,
      <<"N", "a", "N">>, <<"I", "n", "f">>, <<"-", "I", "n", "f">> }

CfgInit ==
    /\ pc = "idle"
    /\ archive = [meta |-> "absent"]
    /\ clock = 1
    /\ args = [op |-> "none"]
    /\ analysis = NoAnalysis
    /\ handlerCalls = <<>>
    /\ rcResult = [outcome |-> Pass, examples |-> ZeroExamples]
    /\ registeredChecks = EmptyRegistry
    /\ checksConfiguration = EmptyRegistry
    /\ regResult = "none"
    /\ defaultSnaps = <<>>
    /\ configSnap = <<>>
    /\ item \in CfgItems
    /\ setResult = "none"
    /\ rerun = NoAnalysis
    /\ file = NoFile
    /\ loadResult = NoLoad
    /\ mutex = NoHolder
    /\ procs = NoProcs
    /\ policy = NoPolicy
    /\ codecResult = NoCodec

\* a call of item.Set(v)
DoSet ==
    /\ \E v \in SetTexts :
         LET r == Set(item, v)
         IN  /\ item' = r.item
             /\ setResult' = r.err
             /\ args' = [op |-> "Set", v |-> v, before |-> item]
    /\ UNCHANGED <<pc, archive, clock, analysis, handlerCalls, rcResult,
                   regVars, readVars, rerun, fileVars, concVars, enumVars>>

\* a call of item.Value()
DoValue ==
    /\ args' = [op |-> "Value", ret |-> Value(item)]
    /\ UNCHANGED <<pc, archive, clock, analysis, handlerCalls, rcResult,
                   regVars, readVars, cfgVars,
                   rerun, fileVars, concVars, enumVars>>

CfgNext == DoSet \/ DoValue

CfgSpec == CfgInit /\ [][CfgNext]_vars

-----------------------------------------------------------------------------
\* Claims about Value and Set.

\* percentage inputs between 0 and 100 and the value each stands for, in
\* units of 1/Scale: f / 100 above 1, f itself up to 1
PercentageInputs ==
    { [text |-> <<"0">>,                units |-> 0],
      [text |-> <<"0", ".", "5">>,      units |-> 5000],
      [text |-> <<"1">>,                units |-> 10000],
      [text |-> <<"1", ".", "5">>,      units |-> 150],
      [text |-> <<"5", "0">>,           units |-> 5000],
      [text |-> <<"5", "0", "%">>,      units |-> 5000],
      [text |-> <<"1", "0", "0">>,      units |-> 10000] }

\* C15: Value() is the override when one is set and the default otherwise; on
\* a percentage item a successful Set of f in 0..100 makes Value() f / 100
\* when f > 1 and f when f <= 1, every successful Set leaves Value() in the
\* range 0 to 1, and inputs below 0 and above 100 are rejected.
C15_ValueAndSet ==
    /\ args.op = "Value" =>
         args.ret = IF item.SetValue.isNil THEN item.Default ELSE item.SetValue.v
    /\ (args.op = "Set" /\ item.Unit = PercentageUnit) =>
         /\ \A e \in PercentageInputs :
              args.v = e.text =>
                /\ setResult = NilErr
                /\ item.SetValue = [isNil |-> FALSE, v |-> [kind |-> "num", n |-> e.units]]
         /\ setResult = NilErr =>
              /\ ~item.SetValue.isNil
              /\ item.SetValue.v.kind = "num"
              /\ item.SetValue.v.n >= 0
              /\ item.SetValue.v.n <= Scale
         /\ args.v \in {<<"-", "1">>, <<"1", "0", "1">>, <<"1", "5", "0", "%">>} =>
              /\ setResult # NilErr
              /\ setResult # "none"

\* percentages written with a percent sign, "N%" with 0 <= N <= 100, and
\* N / 100 in units of 1/Scale
PercentSignInputs ==
    { [text |-> <<"0", "%">>,           units |-> 0],
      [text |-> <<"0", ".", "5", "%">>, units |-> 50],
      [text |-> <<"1", "%">>,           units |-> 100],
      [text |-> <<"5", "0", "%">>,      units |-> 5000],
      [text |-> <<"1", "0", "0", "%">>, units |-> 10000] }

\* C27: on a percentage item, Set of "N%" with 0 <= N <= 100 succeeds and
\* stores N / 100 as the override, so a larger percentage never stores a
\* smaller value.
C27_PercentSign ==
    (args.op = "Set" /\ item.Unit = PercentageUnit) =>
        \A e \in PercentSignInputs :
            args.v = e.text =>
                /\ setResult = NilErr
                /\ item.SetValue = [isNil |-> FALSE, v |-> [kind |-> "num", n |-> e.units]]

\* the texts no unit can parse
Unparsable == {<<>>, <<"%">>, <<"x">>, <<"1", ".", "2", ".", "3">>}

\* C16: a Set call that returns an error leaves the item, and so its override
\* and Value(), as they were before the call; unparsable text, a negative or
\* above-100 percentage and a negative unsigned int are errors; a negative
\* value is accepted for a signed int.
C16_ValidateBeforeStore ==
    args.op = "Set" =>
        /\ setResult # NilErr => item = args.before
        /\ args.v \in Unparsable => setResult # NilErr
        /\ (item.Unit = PercentageUnit
              /\ args.v \in {<<"-", "1">>, <<"1", "0", "1">>}) => setResult # NilErr
        /\ (item.Unit = UIntUnit /\ args.v = <<"-", "1">>) => setResult # NilErr
        /\ (item.Unit = IntUnit /\ args.v = <<"-", "1">>) =>
              /\ setResult = NilErr
              /\ item.SetValue = [isNil |-> FALSE, v |-> [kind |-> "num", n |-> 0 - Scale]]

\* a Set that failed on an item whose override an earlier Set had stored
C16_Witness ==
    /\ args.op = "Set"
    /\ setResult \notin {NilErr, "none"}
    /\ ~args.before.SetValue.isNil
    /\ item = args.before

-----------------------------------------------------------------------------
\* Claims about the outcome labels.

\* the canonical label of an outcome
CanonicalLabel(o) ==
    CASE o = 0 -> "PASS"
      [] o = 1 -> "WARN"
      [] o = 2 -> "FAIL"
      [] o = 3 -> "SKIP"

\* C17: Pass is PASS, PassWithIssues is WARN, Fail is FAIL and Skipped is
\* SKIP, no two outcomes share a label, and in every CheckResult of an
\* analysis OutcomeString is the label of Outcome.
C17_OutcomeLabels ==
    /\ OutcomeString(Pass) = "PASS"
    /\ OutcomeString(PassWithIssues) = "WARN"
    /\ OutcomeString(Fail) = "FAIL"
    /\ OutcomeString(Skipped) = "SKIP"
    /\ \A i, j \in 1..Len(Outcomes) :
         i # j => OutcomeString(Outcomes[i]) # OutcomeString(Outcomes[j])
    /\ pc = "ranChecks" =>
         \A i \in 1..Len(analysis.Results) :
            /\ analysis.Results[i].Outcome \in 0..3
            /\ analysis.Results[i].OutcomeString =
                 CanonicalLabel(analysis.Results[i].Outcome)

\* an analysis whose two results are a Fail and a Skipped
C17_Witness ==
    /\ pc = "ranChecks"
    /\ Len(analysis.Results) = 2
    /\ analysis.Results[1].Outcome = Fail
    /\ analysis.Results[1].OutcomeString = "FAIL"
    /\ analysis.Results[2].Outcome = Skipped
    /\ analysis.Results[2].OutcomeString = "SKIP"

-----------------------------------------------------------------------------
\* Inputs of the meta-cluster checks.

NoReplicas == <<>>

\* the JSZ artifacts a server can have in the archive
JszMissing ==
    [kind |-> "missing", Disabled |-> FALSE, hasMeta |-> FALSE, Leader |-> "",
     Replicas |-> NoReplicas]
JszMalformed ==
    [kind |-> "malformed", Disabled |-> FALSE, hasMeta |-> FALSE, Leader |-> "",
     Replicas |-> NoReplicas]
\* JetStream enabled, no meta group info
JszNoMeta ==
    [kind |-> "ok", Disabled |-> FALSE, hasMeta |-> FALSE, Leader |-> "",
     Replicas |-> NoReplicas]
\* leader s1, its peer online
JszLeaderS1 ==
    [kind |-> "ok", Disabled |-> FALSE, hasMeta |-> TRUE, Leader |-> "s1",
     Replicas |-> <<[Name |-> "s2", Offline |-> FALSE]>>]
\* no leader, both peers offline
JszNoLeader ==
    [kind |-> "ok", Disabled |-> FALSE, hasMeta |-> TRUE, Leader |-> "",
     Replicas |-> <<[Name |-> "s1", Offline |-> TRUE], [Name |-> "s3", Offline |-> TRUE]>>]
\* JetStream disabled, no meta group info
JszDisabled ==
    [kind |-> "ok", Disabled |-> TRUE, hasMeta |-> FALSE, Leader |-> "",
     Replicas |-> NoReplicas]
\* JetStream disabled, yet meta group info with leader s2 and an offline peer
JszDisabledMeta ==
    [kind |-> "ok", Disabled |-> TRUE, hasMeta |-> TRUE, Leader |-> "s2",
     Replicas |-> <<[Name |-> "s1", Offline |-> TRUE]>>]

JszPool ==
    {JszMissing, JszMalformed, JszNoMeta, JszLeaderS1, JszNoLeader, JszDisabled,
     JszDisabledMeta}

\* the name of the i-th server of the archive
ServerName(i) ==
    CASE i = 1 -> "s1" [] i = 2 -> "s2" [] i = 3 -> "s3" [] i = 4 -> "s4"
      [] OTHER -> "s5"

\* the cluster of the servers lo..hi with the artifacts js gives them
MkCluster(name, lo, hi, js) ==
    [name    |-> name,
     servers |-> [i \in 1..(hi - lo + 1) |->
                    [name |-> ServerName(lo + i - 1), jsz |-> js[lo + i - 1]]]]

\* an archive of Len(js) servers, the first k in cluster C1, the rest in C2
MkArchive(k, js) ==
    [meta     |-> "present",
     clusters |-> (IF k > 0 THEN <<MkCluster("C1", 1, k, js)>> ELSE <<>>)
                    \o (IF k < Len(js) THEN <<MkCluster("C2", k + 1, Len(js), js)>>
                        ELSE <<>>)]

\* the checks RegisterMetaChecks registers
MetaOfflineCheck ==
    [Code |-> <<"M", "E", "T", "A", "_", "0", "0", "1">>,
     Name |-> "Meta cluster offline replicas",
     Description |-> "All nodes part of the meta group are online",
     Configuration |-> [isNil |-> TRUE, items |-> {}],
     Handler |-> [kind |-> "metaOffline"]]
MetaLeaderCheck ==
    [Code |-> <<"M", "E", "T", "A", "_", "0", "0", "2">>,
     Name |-> "Meta cluster leader",
     Description |-> "All nodes part of the meta group agree on the meta cluster leader",
     Configuration |-> [isNil |-> TRUE, items |-> {}],
     Handler |-> [kind |-> "metaLeader"]]

MetaInit ==
    /\ pc = "idle"
    /\ \E n \in 1..MaxServers :
         \E k \in 0..n, js \in [1..n -> JszPool] : archive = MkArchive(k, js)
    /\ clock = 1
    /\ args = [op |-> "none"]
    /\ analysis = NoAnalysis
    /\ handlerCalls = <<>>
    /\ rcResult = [outcome |-> Pass, examples |-> ZeroExamples]
    /\ registeredChecks = EmptyRegistry
    /\ checksConfiguration = EmptyRegistry
    /\ regResult = "none"
    /\ defaultSnaps = <<>>
    /\ configSnap = <<>>
    /\ item = NoItem
    /\ setResult = "none"
    /\ rerun = NoAnalysis
    /\ file = NoFile
    /\ loadResult = NoLoad
    /\ mutex = NoHolder
    /\ procs = NoProcs
    /\ policy = NoPolicy
    /\ codecResult = NoCodec

\* RunCheck of the meta-cluster leader check
DoRunMetaLeader ==
    /\ pc = "idle"
    /\ \E limit \in 0..MaxLimit :
         LET r == RunMetaCheck(MetaLeaderCheck, archive, limit)
         IN  /\ args' = [op |-> "RunCheck", check |-> MetaLeaderCheck, limit |-> limit]
             /\ rcResult' = [outcome |-> r.outcome, examples |-> r.examples]
             /\ handlerCalls' = r.calls
    /\ pc' = "ranCheck"
    /\ UNCHANGED <<archive, clock, analysis, regVars, readVars, cfgVars,
                   rerun, fileVars, concVars, enumVars>>

\* RunCheck of the meta-cluster offline replicas check
DoRunMetaOffline ==
    /\ pc = "idle"
    /\ \E limit \in 0..MaxLimit :
         LET r == RunMetaCheck(MetaOfflineCheck, archive, limit)
         IN  /\ args' = [op |-> "RunCheck", check |-> MetaOfflineCheck, limit |-> limit]
             /\ rcResult' = [outcome |-> r.outcome, examples |-> r.examples]
             /\ handlerCalls' = r.calls
    /\ pc' = "ranCheck"
    /\ UNCHANGED <<archive, clock, analysis, regVars, readVars, cfgVars,
                   rerun, fileVars, concVars, enumVars>>

MetaNext == DoRunMetaLeader \/ DoRunMetaOffline

MetaSpec == MetaInit /\ [][MetaNext]_vars

-----------------------------------------------------------------------------
\* Claims about the meta-cluster checks.

\* RunCheck has run the meta check with this handler
RanMeta(kind) ==
    /\ pc = "ranCheck"
    /\ args.op = "RunCheck"
    /\ args.check.Handler.kind = kind

ClusterIndexes == 1..Len(archive.clusters)
ServerIndexes(ci) == 1..Len(archive.clusters[ci].servers)
JszOf(ci, si) == archive.clusters[ci].servers[si].jsz

\* some server's artifact exists but does not deserialize
AnyMalformed ==
    \E ci \in ClusterIndexes : \E si \in ServerIndexes(ci) :
        JszOf(ci, si).kind = "malformed"

\* the server's snapshot loads and holds the coordination group
Loads(ci, si) == JszOf(ci, si).kind = "ok" /\ JszOf(ci, si).hasMeta

\* the same, of a server that does not report JetStream as disabled
Responds(ci, si) == Loads(ci, si) /\ ~JszOf(ci, si).Disabled

LeaderValue(ci, si) ==
    IF JszOf(ci, si).Leader = "" THEN "NO_LEADER" ELSE JszOf(ci, si).Leader

\* the clusters whose loading servers name more than one leader
SplitAmongLoading ==
    {ci \in ClusterIndexes :
        Cardinality({LeaderValue(ci, si) : si \in {x \in ServerIndexes(ci) : Loads(ci, x)}}) > 1}

\* the clusters whose responding servers name more than one leader
SplitAmongResponding ==
    {ci \in ClusterIndexes :
        Cardinality({LeaderValue(ci, si) : si \in {x \in ServerIndexes(ci) : Responds(ci, x)}}) > 1}

\* the leader check's verdict is the one these split clusters call for: Fail
\* exactly when there is one, one example offered per split cluster, every
\* stored example naming a split cluster of its own
LeaderVerdictFor(split) ==
    /\ rcResult.outcome = IF split # {} THEN Fail ELSE Pass
    /\ rcResult.examples.Error = ""
    /\ rcResult.examples.Total = Cardinality(split)
    /\ \A i \in 1..Len(rcResult.examples.Examples) :
         /\ \E ci \in split :
              /\ rcResult.examples.Examples[i][1] = "disagree"
              /\ rcResult.examples.Examples[i][2] = archive.clusters[ci].name
         /\ \A j \in 1..Len(rcResult.examples.Examples) :
              i # j => rcResult.examples.Examples[i][2] # rcResult.examples.Examples[j][2]

OfflineReports(reporting(_, _)) ==
    {t \in UNION {UNION {{<<ci, si, pi>> : pi \in 1..Len(JszOf(ci, si).Replicas)}
                            : si \in ServerIndexes(ci)} : ci \in ClusterIndexes} :
        /\ reporting(t[1], t[2])
        /\ JszOf(t[1], t[2]).Replicas[t[3]].Offline}

\* the offline check's verdict is the one these reports call for: Fail exactly
\* when there is one, one example offered per report, every stored example
\* naming the cluster, server and peer of a report
OfflineVerdictFor(reports) ==
    /\ rcResult.outcome = IF reports # {} THEN Fail ELSE Pass
    /\ rcResult.examples.Error = ""
    /\ rcResult.examples.Total = Cardinality(reports)
    /\ \A i \in 1..Len(rcResult.examples.Examples) :
         \E t \in reports :
            rcResult.examples.Examples[i] =
                <<"offline", archive.clusters[t[1]].name,
                  archive.clusters[t[1]].servers[t[2]].name,
                  JszOf(t[1], t[2]).Replicas[t[3]].Name>>

LoadErrorPrefix(kind) ==
    IF kind = "metaLeader" THEN "failed to load JSZ for server "
    ELSE "failed to load variables for server "

\* the servers whose artifact does not deserialize, by name
MalformedServers ==
    UNION {{archive.clusters[ci].servers[si].name :
                si \in {x \in ServerIndexes(ci) : JszOf(ci, x).kind = "malformed"}}
            : ci \in ClusterIndexes}

\* C20: when some server's artifact exists but fails to deserialize, either
\* meta check ends as Skipped, never Pass or Fail, and the collection's Error
\* is the check's error naming a server with such an artifact.
C20_MalformedSkips ==
    \A kind \in {"metaLeader", "metaOffline"} :
        (RanMeta(kind) /\ AnyMalformed) =>
            /\ rcResult.outcome = Skipped
            /\ \E name \in MalformedServers :
                 rcResult.examples.Error =
                    LoadErrorPrefix(kind) \o name \o ": unexpected end of JSON input"

\* the offline check had found offline peers before it met the artifact that
\* does not deserialize
C20_Witness ==
    /\ RanMeta("metaOffline")
    /\ AnyMalformed
    /\ rcResult.outcome = Skipped
    /\ rcResult.examples.Total > 0
    /\ rcResult.examples.Error # ""

-----------------------------------------------------------------------------
\* Running the same checks twice: a caller makes a call and then makes it
\* again with the same arguments on the same archive.

\* the handler behaviours of the checks run twice
RerunHandlers ==
    {[kind |-> "scripted", outcome |-> Pass, err |-> NilErr, adds |-> 0],
     [kind |-> "scripted", outcome |-> Fail, err |-> NilErr, adds |-> 2],
     [kind |-> "scripted", outcome |-> PassWithIssues, err |-> "boom", adds |-> 1]}

\* archives of one cluster of two servers, with or without the metadata artifact
RerunInit ==
    /\ pc = "idle"
    /\ \E m \in {"absent", "present"}, js \in [1..2 -> {JszLeaderS1, JszNoLeader}] :
         archive = [MkArchive(2, js) EXCEPT !.meta = m]
    /\ clock = 1
    /\ args = [op |-> "none"]
    /\ analysis = NoAnalysis
    /\ handlerCalls = <<>>
    /\ rcResult = [outcome |-> Pass, examples |-> ZeroExamples]
    /\ registeredChecks = EmptyRegistry
    /\ checksConfiguration = EmptyRegistry
    /\ regResult = "none"
    /\ defaultSnaps = <<>>
    /\ configSnap = <<>>
    /\ item = NoItem
    /\ setResult = "none"
    /\ rerun = NoAnalysis
    /\ file = NoFile
    /\ loadResult = NoLoad
    /\ mutex = NoHolder
    /\ procs = NoProcs
    /\ policy = NoPolicy
    /\ codecResult = NoCodec

\* the first call of RunChecks
DoRunChecksFirst ==
    /\ pc = "idle"
    /\ \E codes \in SeqsUpTo(RunCodes, MaxChecks), limit \in 0..MaxLimit,
          skip \in SkipLists :
         \E hs \in [1..Len(codes) -> RerunHandlers] :
           LET checks == [i \in 1..Len(codes) |-> MkCheck(codes[i], hs[i])]
               r == RunChecks(checks, archive, limit, skip, clock)
           IN  /\ args' = [op |-> "RunChecks", checks |-> checks,
                           limit |-> limit, skip |-> skip]
               /\ analysis' = r.analysis
               /\ handlerCalls' = r.calls
    /\ pc' = "ranChecks"
    /\ clock' = clock + 1
    /\ UNCHANGED <<archive, rcResult, regVars, readVars, cfgVars,
                   rerun, fileVars, concVars, enumVars>>

\* the second call of RunChecks, with the arguments of the first
DoRunChecksAgain ==
    /\ pc = "ranChecks"
    /\ rerun' = RunChecks(args.checks, archive, args.limit, args.skip, clock).analysis
    /\ pc' = "ranTwice"
    /\ clock' = clock + 1
    /\ UNCHANGED <<archive, args, analysis, handlerCalls, rcResult, regVars, readVars,
                   cfgVars, fileVars, concVars, enumVars>>

\* the second call of RunCheck on the meta-cluster leader check
DoRunMetaLeaderAgain ==
    /\ pc = "ranCheck"
    /\ LET r == RunMetaCheck(args.check, archive, args.limit)
       IN  rerun' = [outcome |-> r.outcome, examples |-> r.examples]
    /\ pc' = "ranTwice"
    /\ clock' = clock + 1
    /\ UNCHANGED <<archive, args, analysis, handlerCalls, rcResult, regVars, readVars,
                   cfgVars, fileVars, concVars, enumVars>>

RerunNext ==
    DoRunChecksFirst \/ DoRunChecksAgain \/ DoRunMetaLeader \/ DoRunMetaLeaderAgain

RerunSpec == RerunInit /\ [][RerunNext]_vars

-----------------------------------------------------------------------------
\* Claims about the examples a result carries, the independence of results
\* and the recorded skip list.

\* the number of examples offered and not stored, as a collection states it
Dropped(c) == c.Total - Len(c.Examples)

\* C23: a collection created with limit L never stores more than L examples,
\* its running total counts every example offered, and once more than L were
\* offered both the collection RunCheck returns and the CheckResult RunChecks
\* builds from it state a non-zero number of dropped examples.
C23_Truncation ==
    /\ pc = "ranCheck" =>
          /\ Len(rcResult.examples.Examples) <= args.limit
          /\ rcResult.examples.Total = args.check.Handler.adds
          /\ args.check.Handler.adds > args.limit => Dropped(rcResult.examples) > 0
    /\ pc = "ranChecks" =>
          \A i \in 1..Len(args.checks) :
              ~Listed(i) =>
                  /\ Len(analysis.Results[i].Examples.Examples) <= args.limit
                  /\ args.checks[i].Handler.adds > args.limit
                        => Dropped(analysis.Results[i].Examples) > 0

\* the Analysis of the i-th check of the list run alone
RunAlone(i) ==
    RunChecks(<<args.checks[i]>>, archive, args.limit, args.skip, clock).analysis

\* C25: the CheckResult of a check in a list equals the result of running
\* that check alone with the same archive, limit and skip list, whatever the
\* other checks of the list are and do.
C25_Independent ==
    pc = "ranChecks" =>
        \A i \in 1..Len(args.checks) :
            analysis.Results[i] = RunAlone(i).Results[1]

\* a check that stores an example follows one that returned an error after
\* offering examples, and a check of another code
C25_Witness ==
    /\ pc = "ranChecks"
    /\ Len(args.checks) = 2
    /\ args.checks[1].Code # args.checks[2].Code
    /\ ~Listed(1) /\ ~Listed(2)
    /\ HandlerErr(1) # NilErr
    /\ args.checks[1].Handler.adds > 0
    /\ HandlerErr(2) = NilErr
    /\ args.limit = 1
    /\ Len(analysis.Results[1].Examples.Examples) = 1
    /\ Len(analysis.Results[2].Examples.Examples) = 1
    /\ analysis.Results[2].Examples.Error = ""

\* C28: Analysis.Skipped is the skip list the caller gave, in the same order,
\* a nil list being recorded as an empty one; entries that match no check
\* stay in it and the codes of checks skipped for a handler error are not
\* added to it.
C28_SkippedAsGiven ==
    pc = "ranChecks" =>
        analysis.Skipped = IF args.skip.isNil THEN <<>> ELSE args.skip.elems

\* a skip entry that matches no check of the run, next to a check that ended
\* Skipped because its handler returned an error
C28_Witness ==
    /\ pc = "ranChecks"
    /\ \E j \in 1..Len(args.skip.elems) :
         /\ \A i \in 1..Len(args.checks) :
               ~EqualFold(args.checks[i].Code, args.skip.elems[j])
         /\ analysis.Skipped[j] = args.skip.elems[j]
    /\ \E i \in 1..Len(args.checks) :
         /\ ~Listed(i)
         /\ HandlerErr(i) # NilErr
         /\ analysis.Results[i].Outcome = Skipped
         /\ \A j \in 1..Len(analysis.Skipped) :
               analysis.Skipped[j] # args.checks[i].Code

\* a run with a nil skip list
C28_NilWitness ==
    /\ pc = "ranChecks"
    /\ args.skip.isNil
    /\ Len(args.checks) > 0
    /\ analysis.Skipped = <<>>

-----------------------------------------------------------------------------
\* Persisted analyses (checks.go:260-292). An Analysis is written as a JSON
\* document by encoding/json and read back by LoadAnalysis with
\* json.Unmarshal. A JSON value is a record with its type t and its value v.

JNull == [t |-> "null", v |-> 0]
\* a key left out of an object
JAbsent == [t |-> "absent", v |-> 0]
JStr(s) == [t |-> "string", v |-> s]
JNum(n) == [t |-> "number", v |-> n]
JArr(seq) == [t |-> "array", v |-> seq]
JObj(fields) == [t |-> "object", v |-> fields]

\* a byte that is not valid UTF-8, and the rune encoding/json writes for it
InvalidByte == "<FF>"
ReplacementRune == "<U+FFFD>"

\* encoding/json writes a Go string coerced to valid UTF-8
ToValidUTF8(s) ==
    [i \in 1..Len(s) |-> IF s[i] = InvalidByte THEN ReplacementRune ELSE s[i]]

\* time.Time is written as RFC 3339 text of its instant, and parsed back
FormatTime(now) == <<"T", now>>
IsTimeText(s) == Len(s) = 2 /\ s[1] = "T"
ParseTime(s) == s[2]

\* json: unsupported value, returned for a float64 that is NaN or infinite
ErrUnsupportedValue == "json: unsupported value"
\* the errors of os.ReadFile and json.Unmarshal
ErrNotExist == "open: no such file or directory"
ErrJSONSyntax == "invalid character"
ErrJSONType == "json: cannot unmarshal into Go struct field"

\* a float64 encoding/json can write
Writable(f) == f.kind = "num"

\* CheckConfiguration (checks.go:35-42); set_value is left out when nil
ItemDoc(it) ==
    JObj([key         |-> JStr(ToValidUTF8(it.Key)),
          check       |-> JStr(ToValidUTF8(it.Check)),
          description |-> JStr(it.Description),
          default     |-> JNum(it.Default.n),
          unit        |-> JStr(it.Unit),
          set_value   |-> IF it.SetValue.isNil THEN JAbsent
                          ELSE JNum(it.SetValue.v.n)])

\* Check (checks.go:109-115): the Handler has the tag json:"-"
CheckDoc(c) ==
    JObj([code          |-> JStr(ToValidUTF8(c.Code)),
          name          |-> JStr(c.Name),
          description   |-> JStr(c.Description),
          configuration |-> IF c.Configuration.isNil THEN JNull
                            ELSE JObj({ItemDoc(it) : it \in c.Configuration.items})])

\* ExamplesCollection
ExamplesDoc(e) ==
    JObj([examples |-> JArr([k \in 1..Len(e.Examples) |->
                               JStr(<<ToValidUTF8(e.Examples[k][1]), e.Examples[k][2]>>)]),
          limit    |-> JNum(e.Limit),
          total    |-> JNum(e.Total),
          error    |-> JStr(e.Error)])

\* CheckResult (checks.go:261-266)
ResultDoc(r) ==
    JObj([check          |-> CheckDoc(r.Check),
          outcome        |-> JNum(r.Outcome),
          outcome_string |-> JStr(r.OutcomeString),
          examples       |-> ExamplesDoc(r.Examples)])

\* Analysis (checks.go:269-276)
AnalysisDoc(a) ==
    JObj([type     |-> JStr(a.Type),
          time     |-> JStr(FormatTime(a.Time)),
          metadata |-> JObj([user_name             |-> JStr(a.Metadata.UserName),
                             connected_server_name |-> JStr(a.Metadata.ConnectedServerName)]),
          skipped  |-> JArr([k \in 1..Len(a.Skipped) |-> JStr(ToValidUTF8(a.Skipped[k]))]),
          checks   |-> JArr([k \in 1..Len(a.Results) |-> ResultDoc(a.Results[k])]),
          outcomes |-> JObj([l \in DOMAIN a.Outcomes |-> JNum(a.Outcomes[l])])])

\* the float64 values of an Analysis
FloatsOf(a) ==
    UNION {UNION {{it.Default} \cup (IF it.SetValue.isNil THEN {} ELSE {it.SetValue.v}) :
                     it \in a.Results[k].Check.Configuration.items} :
             k \in 1..Len(a.Results)}

\* json.Marshal(analysis)
MarshalAnalysis(a) ==
    IF \E f \in FloatsOf(a) : ~Writable(f)
    THEN [err |-> ErrUnsupportedValue, doc |-> JNull]
    ELSE [err |-> NilErr, doc |-> AnalysisDoc(a)]

\* saving an Analysis: the document is written when it could be encoded
Save(a) ==
    LET m == MarshalAnalysis(a)
    IN  IF m.err # NilErr
        THEN [err |-> m.err, file |-> NoFile]
        ELSE [err |-> NilErr, file |-> [kind |-> "json", doc |-> m.doc]]

\* json.Unmarshal into a CheckConfiguration
ItemOf(d) ==
    [Key         |-> d.v.key.v,
     Check       |-> d.v.check.v,
     Description |-> d.v.description.v,
     Default     |-> Fin(d.v.default.v),
     Unit        |-> d.v.unit.v,
     SetValue    |-> IF d.v.set_value.t = "number"
                     THEN ValueOf(Fin(d.v.set_value.v)) ELSE NilValue]

\* json.Unmarshal into a Check: nothing is read into Handler
CheckOf(d) ==
    [Code          |-> d.v.code.v,
     Name          |-> d.v.name.v,
     Description   |-> d.v.description.v,
     Configuration |-> IF d.v.configuration.t = "object"
                       THEN [isNil |-> FALSE,
                             items |-> {ItemOf(x) : x \in d.v.configuration.v}]
                       ELSE [isNil |-> TRUE, items |-> {}],
     Handler       |-> NilHandler]

\* json.Unmarshal into an ExamplesCollection
ExamplesOf(d) ==
    [Examples |-> [k \in 1..Len(d.v.examples.v) |-> d.v.examples.v[k].v],
     Limit    |-> d.v.limit.v,
     Total    |-> d.v.total.v,
     Error    |-> d.v.error.v]

\* Outcome is an int without an UnmarshalJSON (checks.go:169): every JSON
\* number that is an integer is accepted, nothing else is
OutcomeFits(d) == d.t = "number" /\ d.v \in Int

\* json.Unmarshal into a CheckResult
ResultOf(d) ==
    [Check         |-> CheckOf(d.v.check),
     Outcome       |-> d.v.outcome.v,
     OutcomeString |-> d.v.outcome_string.v,
     Examples      |-> ExamplesOf(d.v.examples)]

\* json.Unmarshal(ab, &analyzes) on a document
UnmarshalAnalysis(doc) ==
    IF doc.t # "object"
    THEN [err |-> ErrJSONType, analysis |-> NoAnalysis]
    ELSE IF \/ ~IsTimeText(doc.v.time.v)
            \/ \E k \in 1..Len(doc.v.checks.v) : ~OutcomeFits(doc.v.checks.v[k].v.outcome)
    THEN [err |-> ErrJSONType, analysis |-> NoAnalysis]
    ELSE [err |-> NilErr,
          analysis |->
            [Type     |-> doc.v.type.v,
             Time     |-> ParseTime(doc.v.time.v),
             Metadata |-> [UserName            |-> doc.v.metadata.v.user_name.v,
                           ConnectedServerName |-> doc.v.metadata.v.connected_server_name.v],
             Skipped  |-> [k \in 1..Len(doc.v.skipped.v) |-> doc.v.skipped.v[k].v],
             Results  |-> [k \in 1..Len(doc.v.checks.v) |-> ResultOf(doc.v.checks.v[k])],
             Outcomes |-> [l \in DOMAIN doc.v.outcomes.v |-> doc.v.outcomes.v[l].v]]]

\* func LoadAnalysis(path string) (*Analysis, error)
LoadAnalysis(f) ==
    CASE f.kind = "none"    -> [err |-> ErrNotExist, analysis |-> NoAnalysis]
      [] f.kind = "garbage" -> [err |-> ErrJSONSyntax, analysis |-> NoAnalysis]
      [] OTHER              -> UnmarshalAnalysis(f.doc)

\* the configuration item of the checks of a saved run
FileItem ==
    [Key |-> <<"k">>, Check |-> <<"b">>, Description |-> "an item",
     Default |-> Fin(Scale \div 2), Unit |-> PercentageUnit, SetValue |-> NilValue]

\* the checks of a saved run: without configuration, with an item without an
\* override, with the override 0.5, and with the override a Set("NaN") stored
FileChecks ==
    {[MkCheck(<<"b">>, [kind |-> "scripted", outcome |-> Fail,
                        err |-> NilErr, adds |-> 2])
         EXCEPT !.Configuration = [isNil |-> TRUE, items |-> {}]],
     [MkCheck(<<"A", "b">>, [kind |-> "scripted", outcome |-> PassWithIssues,
                             err |-> "boom", adds |-> 1])
         EXCEPT !.Configuration = [isNil |-> FALSE, items |-> {FileItem}]],
     [MkCheck(<<"b">>, [kind |-> "scripted", outcome |-> Pass,
                        err |-> NilErr, adds |-> 0])
         EXCEPT !.Configuration =
            [isNil |-> FALSE, items |-> {Set(FileItem, <<"0", ".", "5">>).item}]],
     [MkCheck(<<"A", "b">>, [kind |-> "scripted", outcome |-> Pass,
                             err |-> NilErr, adds |-> 1])
         EXCEPT !.Configuration =
            [isNil |-> FALSE, items |-> {Set(FileItem, <<"N", "a", "N">>).item}]]}

\* the skip lists of a saved run; one entry holds a byte that is not UTF-8
FileSkipLists ==
    {[isNil |-> TRUE,  elems |-> <<>>],
     [isNil |-> FALSE, elems |-> <<>>],
     [isNil |-> FALSE, elems |-> << <<"b">> >>],
     [isNil |-> FALSE, elems |-> << <<"x", InvalidByte>> >>]}

\* what a file may hold for a check's outcome besides the four outcomes
ForeignOutcomes == {JNum(0 - 1), JNum(4), JNum(7), JStr("FAIL")}

FileInit ==
    /\ pc = "idle"
    /\ archive \in Archives
    /\ clock = 1
    /\ args = [op |-> "none"]
    /\ analysis = NoAnalysis
    /\ handlerCalls = <<>>
    /\ rcResult = [outcome |-> Pass, examples |-> ZeroExamples]
    /\ registeredChecks = EmptyRegistry
    /\ checksConfiguration = EmptyRegistry
    /\ regResult = "none"
    /\ defaultSnaps = <<>>
    /\ configSnap = <<>>
    /\ item = NoItem
    /\ setResult = "none"
    /\ rerun = NoAnalysis
    /\ file = NoFile
    /\ loadResult = NoLoad
    /\ mutex = NoHolder
    /\ procs = NoProcs
    /\ policy = NoPolicy
    /\ codecResult = NoCodec

\* a call of RunChecks whose Analysis is to be saved
DoRunChecksForSave ==
    /\ pc = "idle"
    /\ \E checks \in SeqsUpTo(FileChecks, MaxChecks), limit \in 0..MaxLimit,
          skip \in FileSkipLists :
         LET r == RunChecks(checks, archive, limit, skip, clock)
         IN  /\ args' = [op |-> "RunChecks", checks |-> checks,
                         limit |-> limit, skip |-> skip]
             /\ analysis' = r.analysis
             /\ handlerCalls' = r.calls
    /\ pc' = "ranChecks"
    /\ clock' = clock + 1
    /\ UNCHANGED <<archive, rcResult, regVars, readVars, cfgVars,
                   rerun, fileVars, concVars, enumVars>>

\* the Analysis is saved
DoSave ==
    /\ pc = "ranChecks"
    /\ LET r == Save(analysis)
       IN  /\ file' = r.file
           /\ loadResult' = [kind |-> "saved", err |-> r.err]
    /\ pc' = "saved"
    /\ UNCHANGED <<archive, clock, args, analysis, handlerCalls, rcResult,
                   regVars, readVars, cfgVars, rerun, concVars, enumVars>>

\* the file is changed before it is loaded: another writer stores a value for
\* a check's outcome, the file is cut short, or it is removed
DoEditFile ==
    /\ pc = "saved"
    /\ file.kind = "json"
    /\ \/ \E k \in 1..Len(file.doc.v.checks.v), o \in ForeignOutcomes :
            file' = [file EXCEPT !.doc.v.checks.v[k].v.outcome = o]
       \/ file' = [kind |-> "garbage"]
       \/ file' = NoFile
    /\ pc' = "edited"
    /\ UNCHANGED <<archive, clock, args, analysis, handlerCalls, rcResult,
                   regVars, readVars, cfgVars, rerun, loadResult, concVars,
                   enumVars>>

\* a call of LoadAnalysis on the file
DoLoadAnalysis ==
    /\ pc \in {"saved", "edited"}
    /\ LET r == LoadAnalysis(file)
       IN  loadResult' = [kind |-> "loaded", err |-> r.err, analysis |-> r.analysis]
    /\ pc' = IF pc = "saved" THEN "loaded" ELSE "loadedEdited"
    /\ UNCHANGED <<archive, clock, args, analysis, handlerCalls, rcResult,
                   regVars, readVars, cfgVars, rerun, file, concVars, enumVars>>

FileNext == DoRunChecksForSave \/ DoSave \/ DoEditFile \/ DoLoadAnalysis

FileSpec == FileInit /\ [][FileNext]_vars

-----------------------------------------------------------------------------
\* Claims about persisted analyses.

\* the Analysis with the handler of every check left out
WithoutHandlers(a) ==
    [a EXCEPT !.Results =
        [k \in 1..Len(a.Results) |-> [a.Results[k] EXCEPT !.Check.Handler = NilHandler]]]

\* C22: saving an Analysis produced by RunChecks succeeds, and loading the
\* saved file returns an Analysis equal to the original in type, time,
\* metadata, skipped list, every CheckResult and the outcome counts, the
\* handler of each check excepted.
C22_RoundTrip ==
    /\ pc = "saved" => (loadResult.err = NilErr /\ file.kind = "json")
    /\ pc = "loaded" =>
         /\ loadResult.err = NilErr
         /\ loadResult.analysis = WithoutHandlers(analysis)

\* the outcomes a file holds for its checks
StoredOutcomes == {file.doc.v.checks.v[k].v.outcome : k \in 1..Len(file.doc.v.checks.v)}

\* C26: LoadAnalysis returns an error when the stored outcome of a check is
\* not one of Pass, PassWithIssues, Fail and Skipped, so the label of every
\* outcome of a loaded Analysis can be computed.
C26_RejectsUnknownOutcome ==
    pc \in {"loaded", "loadedEdited"} =>
        /\ (file.kind = "json"
              /\ \E d \in StoredOutcomes : ~(d.t = "number" /\ d.v \in 0..3))
             => loadResult.err # NilErr
        /\ loadResult.err = NilErr =>
             \A k \in 1..Len(loadResult.analysis.Results) :
                 OutcomeString(loadResult.analysis.Results[k].Outcome) # PanicLabel

-----------------------------------------------------------------------------
\* The registry under concurrent callers (checks.go:117-247). Two goroutines
\* call MustRegisterCheck, one calls GetDefaultChecks and one calls
\* GetConfigurationItems. Each call locks registeredChecksMu first and
\* unlocks it by a deferred call, also when it panics; a step of a call is
\* the lock, one pass of the registration loop, the snapshot, or the unlock.

\* the callers
Registrars == {"reg1", "reg2"}
Readers == {"defaults", "items"}

\* registeredChecksMu.Lock() returns at once for whoever calls it
CanLockAlways(m) == TRUE

\* registeredChecksMu.Lock() returns when no one holds the mutex
CanLock(m) == m = NoHolder

\* the checks the concurrent callers register: two with a configuration item,
\* one without, and one without a description
ConcPool ==
    {[Code |-> <<"A">>, Name |-> "n1", Description |-> "a check",
      Configuration |-> Configuration({GoodItem}), Handler |-> PassHandler],
     [Code |-> <<"b">>, Name |-> "n2", Description |-> "a check",
      Configuration |-> Configuration({[GoodItem EXCEPT !.Key = <<"j">>]}),
      Handler |-> PassHandler],
     [Code |-> <<"c">>, Name |-> "n1", Description |-> "a check",
      Configuration |-> NilConfiguration, Handler |-> PassHandler],
     [Code |-> <<"c">>, Name |-> "n3", Description |-> "",
      Configuration |-> NilConfiguration, Handler |-> PassHandler]}

\* a caller before its call
Caller(kind, batch) ==
    [kind |-> kind, pc |-> "start", batch |-> batch, i |-> 1,
     result |-> "none", snap |-> <<>>]

ConcInit ==
    /\ pc = "idle"
    /\ archive = [meta |-> "absent"]
    /\ clock = 1
    /\ args = [op |-> "none"]
    /\ analysis = NoAnalysis
    /\ handlerCalls = <<>>
    /\ rcResult = [outcome |-> Pass, examples |-> ZeroExamples]
    /\ registeredChecks = EmptyRegistry
    /\ checksConfiguration = EmptyRegistry
    /\ regResult = "none"
    /\ defaultSnaps = <<>>
    /\ configSnap = <<>>
    /\ item = NoItem
    /\ setResult = "none"
    /\ rerun = NoAnalysis
    /\ file = NoFile
    /\ loadResult = NoLoad
    /\ mutex = NoHolder
    /\ \E n \in 1..MaxBatch :
         \E b1 \in [1..n -> ConcPool], b2 \in [1..1 -> ConcPool] :
            procs = [p \in Registrars \cup Readers |->
                       CASE p = "reg1" -> Caller("register", b1)
                         [] p = "reg2" -> Caller("register", b2)
                         [] OTHER      -> Caller(p, <<>>)]
    /\ policy = NoPolicy
    /\ codecResult = NoCodec

\* registeredChecksMu.Lock()
DoLock ==
    /\ \E p \in DOMAIN procs :
         /\ procs[p].pc = "start"
         /\ CanLock(mutex)
         /\ mutex' = p
         /\ procs' = [procs EXCEPT ![p].pc = "locked"]
    /\ UNCHANGED <<runVars, regVars, readVars, cfgVars, rerun, fileVars, enumVars>>

\* one pass of the loop of MustRegisterCheck; a panic leaves the loop
DoRegisterStep ==
    /\ \E p \in Registrars :
         /\ procs[p].pc = "locked"
         /\ \E r \in RegisterOne(RegState, procs[p].batch[procs[p].i]) :
              /\ registeredChecks' = r.registered
              /\ checksConfiguration' = r.config
              /\ procs' = [procs EXCEPT
                    ![p].result = r.result,
                    ![p].i = IF r.result = RegOk THEN @ + 1 ELSE @,
                    ![p].pc = IF r.result # RegOk THEN "panicking"
                              ELSE IF procs[p].i = Len(procs[p].batch) THEN "returning"
                              ELSE "locked"]
    /\ UNCHANGED <<runVars, regResult, readVars, cfgVars, rerun, fileVars,
                   mutex, enumVars>>

\* the body of GetDefaultChecks
DoSnapshotChecks ==
    /\ procs["defaults"].pc = "locked"
    /\ \E res \in GetDefaultChecks(registeredChecks) :
         procs' = [procs EXCEPT !["defaults"].snap = res,
                                !["defaults"].pc = "returning"]
    /\ UNCHANGED <<runVars, regVars, readVars, cfgVars, rerun, fileVars,
                   mutex, enumVars>>

\* the body of GetConfigurationItems
DoSnapshotItems ==
    /\ procs["items"].pc = "locked"
    /\ \E res \in GetConfigurationItems(checksConfiguration) :
         procs' = [procs EXCEPT !["items"].snap = res,
                                !["items"].pc = "returning"]
    /\ UNCHANGED <<runVars, regVars, readVars, cfgVars, rerun, fileVars,
                   mutex, enumVars>>

\* the deferred registeredChecksMu.Unlock(), on return and on panic
DoUnlock ==
    /\ \E p \in DOMAIN procs :
         /\ procs[p].pc \in {"returning", "panicking"}
         /\ mutex' = NoHolder
         /\ procs' = [procs EXCEPT ![p].pc = "done"]
    /\ UNCHANGED <<runVars, regVars, readVars, cfgVars, rerun, fileVars, enumVars>>

ConcNext ==
    DoLock \/ DoRegisterStep \/ DoSnapshotChecks \/ DoSnapshotItems \/ DoUnlock

ConcSpec == ConcInit /\ [][ConcNext]_vars

-----------------------------------------------------------------------------
\* Claims about concurrent callers of the registry.

\* the registrations of a caller that succeeded: the checks before the i-th
Succeeded(p) == {<<p, k>> : k \in 1..(procs[p].i - 1)}

\* a caller whose call returned without a panic
Returned(p) == procs[p].pc = "done" /\ procs[p].result = RegOk

\* the names of the caller's batch, and the catalog keys of its items
BatchNames(p) == {procs[p].batch[k].Name : k \in 1..Len(procs[p].batch)}
BatchItems(p) ==
    UNION {{<<procs[p].batch[k].Code, cfg.Key>> :
               cfg \in procs[p].batch[k].Configuration.items} :
             k \in 1..Len(procs[p].batch)}

\* what a snapshot holds
SnapNames == {procs["defaults"].snap[k].Name : k \in 1..Len(procs["defaults"].snap)}
SnapItems ==
    {<<procs["items"].snap[k].Check, procs["items"].snap[k].Key>> :
        k \in 1..Len(procs["items"].snap)}

AllOrNone(S, T) == S \subseteq T \/ S \cap T = {}

\* C24: the calls are serialized by the one mutex: no two callers are inside
\* a call at once, no two registrations of the same check name both succeed,
\* and a snapshot taken while a batch that registers without a panic is under
\* way holds every check (every configuration item) of that batch or none.
C24_Serialized ==
    /\ Cardinality({p \in DOMAIN procs :
                      procs[p].pc \in {"locked", "returning", "panicking"}}) <= 1
    /\ \A x, y \in UNION {Succeeded(p) : p \in Registrars} :
         x # y => procs[x[1]].batch[x[2]].Name # procs[y[1]].batch[y[2]].Name
    /\ \A p \in Registrars :
         Returned(p) =>
            /\ procs["defaults"].pc = "done" => AllOrNone(BatchNames(p), SnapNames)
            /\ procs["items"].pc = "done" => AllOrNone(BatchItems(p), SnapItems)

\* both registrars offered the name n1: the batch of two of the first was
\* registered, the second panicked, and the snapshots were taken in between
\* (the check snapshot holds the batch, the item snapshot, taken before it,
\* holds nothing)
C24_Witness ==
    /\ \A p \in DOMAIN procs : procs[p].pc = "done"
    /\ Returned("reg1")
    /\ Len(procs["reg1"].batch) = 2
    /\ procs["reg2"].result = PanicRegistered
    /\ procs["reg2"].batch[1].Name \in BatchNames("reg1")
    /\ BatchNames("reg1") \subseteq SnapNames
    /\ BatchItems("reg1") # {}
    /\ SnapItems = {}

-----------------------------------------------------------------------------
\* The enumerated consumer policies and their JSON forms (api/consumers.go).
\* The data handed to UnmarshalJSON and returned by MarshalJSON is text; a
\* nil byte slice is the empty text.

ActionCreateOrUpdate == 0
ActionUpdate == 1
ActionCreate == 2

AckNone == 0
AckAll == 1
AckExplicit == 2

ReplayInstant == 0
ReplayOriginal == 1

DeliverAll == 0
DeliverLast == 1
DeliverNew == 2
DeliverByStartSequence == 3
DeliverByStartTime == 4
DeliverLastPerSubject == 5

PriorityNone == 0
PriorityOverflow == 1
PriorityPinnedClient == 2

actionUpdateString == "update"
actionCreateString == "create"
actionCreateOrUpdateString == ""

\* func jsonString(s string) string
jsonString(s) == "\"" \o s \o "\""

\* json.Marshal of a string of plain letters and underscores
JsonMarshal(s) == [data |-> "\"" \o s \o "\"", err |-> NilErr]

\* the errors of the codecs
ErrCanNotMarshal == "can not marshal"
ErrCanNotUnmarshal == "can not unmarshal"

\* func (a ConsumerAction) MarshalJSON() ([]byte, error)
ConsumerActionMarshalJSON(a) ==
    CASE a = ActionCreate -> JsonMarshal(actionCreateString)
      [] a = ActionUpdate -> JsonMarshal(actionUpdateString)
      [] a = ActionCreateOrUpdate -> JsonMarshal(actionCreateOrUpdateString)
      [] OTHER -> [data |-> "", err |-> ErrCanNotMarshal]

\* func (a *ConsumerAction) UnmarshalJSON(data []byte) error
ConsumerActionUnmarshalJSON(a, data) ==
    CASE data = jsonString("create") -> [value |-> ActionCreate, err |-> NilErr]
      [] data = jsonString("update") -> [value |-> ActionUpdate, err |-> NilErr]
      [] data = jsonString("") -> [value |-> ActionCreateOrUpdate, err |-> NilErr]
      [] OTHER -> [value |-> a, err |-> ErrCanNotUnmarshal]

\* func (p *AckPolicy) UnmarshalJSON(data []byte) error
AckPolicyUnmarshalJSON(p, data) ==
    CASE data = jsonString("none") -> [value |-> AckNone, err |-> NilErr]
      [] data = jsonString("all") -> [value |-> AckAll, err |-> NilErr]
      [] data = jsonString("explicit") -> [value |-> AckExplicit, err |-> NilErr]
      [] OTHER -> [value |-> p, err |-> ErrCanNotUnmarshal]

\* func (p AckPolicy) MarshalJSON() ([]byte, error)
AckPolicyMarshalJSON(p) ==
    CASE p = AckNone -> JsonMarshal("none")
      [] p = AckAll -> JsonMarshal("all")
      [] p = AckExplicit -> JsonMarshal("explicit")
      [] OTHER -> [data |-> "", err |-> ErrCanNotMarshal]

\* func (p *ReplayPolicy) UnmarshalJSON(data []byte) error
ReplayPolicyUnmarshalJSON(p, data) ==
    CASE data = jsonString("instant") -> [value |-> ReplayInstant, err |-> NilErr]
      [] data = jsonString("original") -> [value |-> ReplayOriginal, err |-> NilErr]
      [] OTHER -> [value |-> p, err |-> ErrCanNotUnmarshal]

\* func (p ReplayPolicy) MarshalJSON() ([]byte, error)
ReplayPolicyMarshalJSON(p) ==
    CASE p = ReplayOriginal -> JsonMarshal("original")
      [] p = ReplayInstant -> JsonMarshal("instant")
      [] OTHER -> [data |-> "", err |-> ErrCanNotMarshal]

\* func (p *DeliverPolicy) UnmarshalJSON(data []byte) error: the switch has
\* no default case
DeliverPolicyUnmarshalJSON(p, data) ==
    CASE data \in {jsonString("all"), jsonString("undefined")}
                                              -> [value |-> DeliverAll, err |-> NilErr]
      [] data = jsonString("last")            -> [value |-> DeliverLast, err |-> NilErr]
      [] data = jsonString("new")             -> [value |-> DeliverNew, err |-> NilErr]
      [] data = jsonString("by_start_sequence")
                                              -> [value |-> DeliverByStartSequence, err |-> NilErr]
      [] data = jsonString("by_start_time")   -> [value |-> DeliverByStartTime, err |-> NilErr]
      [] data = jsonString("last_per_subject")
                                              -> [value |-> DeliverLastPerSubject, err |-> NilErr]
      [] OTHER                                -> [value |-> p, err |-> NilErr]

\* a MarshalJSON that writes DeliverNew with the label of DeliverLast
DeliverPolicyMarshalJSONMerged(p) ==
    CASE p = DeliverAll -> JsonMarshal("all")
      [] p = DeliverLast -> JsonMarshal("last")
      [] p = DeliverNew -> JsonMarshal("last")
      [] p = DeliverByStartSequence -> JsonMarshal("by_start_sequence")
      [] p = DeliverByStartTime -> JsonMarshal("by_start_time")
      [] p = DeliverLastPerSubject -> JsonMarshal("last_per_subject")
      [] OTHER -> [data |-> "", err |-> ErrCanNotMarshal]

\* func (p DeliverPolicy) MarshalJSON() ([]byte, error)
DeliverPolicyMarshalJSON(p) ==
    CASE p = DeliverAll -> JsonMarshal("all")
      [] p = DeliverLast -> JsonMarshal("last")
      [] p = DeliverNew -> JsonMarshal("new")
      [] p = DeliverByStartSequence -> JsonMarshal("by_start_sequence")
      [] p = DeliverByStartTime -> JsonMarshal("by_start_time")
      [] p = DeliverLastPerSubject -> JsonMarshal("last_per_subject")
      [] OTHER -> [data |-> "", err |-> ErrCanNotMarshal]

\* func (p *PriorityPolicy) UnmarshalJSON(data []byte) error
PriorityPolicyUnmarshalJSON(p, data) ==
    CASE data = jsonString("none") -> [value |-> PriorityNone, err |-> NilErr]
      [] data = jsonString("overflow") -> [value |-> PriorityOverflow, err |-> NilErr]
      [] data = jsonString("pinned_client") -> [value |-> PriorityPinnedClient, err |-> NilErr]
      [] OTHER -> [value |-> p, err |-> ErrCanNotUnmarshal]

\* func (p PriorityPolicy) MarshalJSON() ([]byte, error)
PriorityPolicyMarshalJSON(p) ==
    CASE p = PriorityNone -> JsonMarshal("none")
      [] p = PriorityOverflow -> JsonMarshal("overflow")
      [] p = PriorityPinnedClient -> JsonMarshal("pinned_client")
      [] OTHER -> [data |-> "", err |-> ErrCanNotMarshal]

\* the five types, the values each defines and the labels of those values
PolicyTypes ==
    {"ConsumerAction", "AckPolicy", "ReplayPolicy", "DeliverPolicy", "PriorityPolicy"}

Defined(type) ==
    CASE type = "ConsumerAction" -> {ActionCreateOrUpdate, ActionUpdate, ActionCreate}
      [] type = "AckPolicy"      -> {AckNone, AckAll, AckExplicit}
      [] type = "ReplayPolicy"   -> {ReplayInstant, ReplayOriginal}
      [] type = "DeliverPolicy"  -> {DeliverAll, DeliverLast, DeliverNew, DeliverByStartSequence,
                                     DeliverByStartTime, DeliverLastPerSubject}
      [] type = "PriorityPolicy" -> {PriorityNone, PriorityOverflow, PriorityPinnedClient}

\* the method of the value's type
MarshalJSON(type, v) ==
    CASE type = "ConsumerAction" -> ConsumerActionMarshalJSON(v)
      [] type = "AckPolicy"      -> AckPolicyMarshalJSON(v)
      [] type = "ReplayPolicy"   -> ReplayPolicyMarshalJSON(v)
      [] type = "DeliverPolicy"  -> DeliverPolicyMarshalJSON(v)
      [] type = "PriorityPolicy" -> PriorityPolicyMarshalJSON(v)

UnmarshalJSON(type, v, data) ==
    CASE type = "ConsumerAction" -> ConsumerActionUnmarshalJSON(v, data)
      [] type = "AckPolicy"      -> AckPolicyUnmarshalJSON(v, data)
      [] type = "ReplayPolicy"   -> ReplayPolicyUnmarshalJSON(v, data)
      [] type = "DeliverPolicy"  -> DeliverPolicyUnmarshalJSON(v, data)
      [] type = "PriorityPolicy" -> PriorityPolicyUnmarshalJSON(v, data)

\* the values an int of these types is given in the model: the defined ones,
\* one below and some above
PolicyValues == (0 - 1)..6

\* JSON strings handed to UnmarshalJSON: every label of the five types, the
\* word "undefined", a label in upper case and a word that is no label
JSONStrings ==
    {jsonString(l) : l \in {"create", "update", "", "none", "all", "explicit",
                            "instant", "original", "last", "new",
                            "by_start_sequence", "by_start_time",
                            "last_per_subject", "overflow", "pinned_client",
                            "undefined", "ALL", "bogus"}}

EnumInit ==
    /\ pc = "idle"
    /\ archive = [meta |-> "absent"]
    /\ clock = 1
    /\ args = [op |-> "none"]
    /\ analysis = NoAnalysis
    /\ handlerCalls = <<>>
    /\ rcResult = [outcome |-> Pass, examples |-> ZeroExamples]
    /\ registeredChecks = EmptyRegistry
    /\ checksConfiguration = EmptyRegistry
    /\ regResult = "none"
    /\ defaultSnaps = <<>>
    /\ configSnap = <<>>
    /\ item = NoItem
    /\ setResult = "none"
    /\ rerun = NoAnalysis
    /\ file = NoFile
    /\ loadResult = NoLoad
    /\ mutex = NoHolder
    /\ procs = NoProcs
    /\ policy \in [type : PolicyTypes, value : PolicyValues]
    /\ codecResult = NoCodec

\* a call of policy.MarshalJSON()
DoMarshalJSON ==
    /\ LET r == MarshalJSON(policy.type, policy.value)
       IN  codecResult' = [kind |-> "marshal", data |-> r.data, err |-> r.err,
                           before |-> policy.value]
    /\ UNCHANGED <<runVars, regVars, readVars, cfgVars, rerun, fileVars,
                   concVars, policy>>

\* a call of (&policy).UnmarshalJSON(data)
DoUnmarshalJSON ==
    /\ \E data \in JSONStrings :
         LET r == UnmarshalJSON(policy.type, policy.value, data)
         IN  /\ policy' = [policy EXCEPT !.value = r.value]
             /\ codecResult' = [kind |-> "unmarshal", data |-> data, err |-> r.err,
                                before |-> policy.value]
    /\ UNCHANGED <<runVars, regVars, readVars, cfgVars, rerun, fileVars, concVars>>

\* the text a MarshalJSON call returned is unmarshalled into a variable of the
\* same type that holds any value
DoUnmarshalMarshalled ==
    /\ codecResult.kind = "marshal"
    /\ codecResult.err = NilErr
    /\ \E target \in PolicyValues :
         LET r == UnmarshalJSON(policy.type, target, codecResult.data)
         IN  /\ policy' = [policy EXCEPT !.value = r.value]
             /\ codecResult' = [kind |-> "roundtrip", data |-> codecResult.data,
                                err |-> r.err, before |-> codecResult.before]
    /\ UNCHANGED <<runVars, regVars, readVars, cfgVars, rerun, fileVars, concVars>>

EnumNext == DoMarshalJSON \/ DoUnmarshalJSON \/ DoUnmarshalMarshalled

EnumSpec == EnumInit /\ [][EnumNext]_vars

-----------------------------------------------------------------------------
\* Claims about the enumerated policies.

\* the JSON strings of the labels a type defines
DefinedLabels(type) == {MarshalJSON(type, v).data : v \in Defined(type)}

\* C29: for each of the five types, UnmarshalJSON of a JSON string that is
\* not one of the type's labels returns an error and leaves the value as it
\* was.
C29_UnknownLabelRejected ==
    (codecResult.kind = "unmarshal" /\ codecResult.data \notin DefinedLabels(policy.type)) =>
        /\ codecResult.err # NilErr
        /\ policy.value = codecResult.before

\* C30: for each of the five types, unmarshalling what MarshalJSON wrote for
\* a defined value gives that value back, two defined values never have the
\* same label, and MarshalJSON of a value that is not defined returns an
\* error and no text.
C30_MarshalRoundTrip ==
    /\ codecResult.kind = "roundtrip" =>
         /\ codecResult.err = NilErr
         /\ policy.value = codecResult.before
    /\ codecResult.kind = "marshal" =>
         IF codecResult.before \in Defined(policy.type)
         THEN /\ codecResult.err = NilErr
              /\ \A w \in Defined(policy.type) \ {codecResult.before} :
                   MarshalJSON(policy.type, w).data # codecResult.data
         ELSE /\ codecResult.err # NilErr
              /\ codecResult.data = ""

\* DeliverNew was written as "new" and read back
C30_Witness ==
    /\ codecResult.kind = "roundtrip"
    /\ policy.type = "DeliverPolicy"
    /\ codecResult.before = DeliverNew
    /\ codecResult.data = jsonString("new")
    /\ policy.value = DeliverNew

\* MarshalJSON of a value that is not defined returned an error
C30_UndefinedWitness ==
    /\ codecResult.kind = "marshal"
    /\ policy.type = "AckPolicy"
    /\ codecResult.before = 6
    /\ codecResult.err = ErrCanNotMarshal

====
